---- MODULE Spec2Model ----
(***************************************************************************)
(* Model of backend/server.py (Sadaa Instrumentals API): the identity      *)
(* endpoint and the four subscription endpoints, running as concurrent     *)
(* request handlers against the shared document store.  One action is one  *)
(* awaited store call together with the handler code that runs up to the   *)
(* next await (asyncio runs the code between two awaits without yielding). *)
(***************************************************************************)
EXTENDS Integers, Sequences, FiniteSets, TLC

\* ---------------------------------------------------------------- bounds
\* Request handlers that may be in flight at once.
Procs == {"h1", "h2"}
\* Most documents the users collection holds.
MaxUsers == 2
\* Most documents the subscriptions collection holds where subscribe calls
\* do not overlap, and where they do (one more than there are handlers).
MaxSubs == 2
MaxRaceSubs == 3
MaxItems == 2
MaxCatalog == 115
\* Plan strings a client may send ("weekly" is an unrecognised one).
Plans == {"monthly", "yearly", "weekly"}

\* ------------------------------------------------------ program constants
\* timedelta(days=30), timedelta(days=365); the clock counts days.
MonthlyDays == 30
YearlyDays == 365
\* price of a monthly / yearly plan.
MonthlyPrice == 53
YearlyPrice == 499
\* Optional[datetime] = None.
Null == -1
\* The instants (days since the start) at which requests arrive: the start,
\* the day a monthly plan bought at the start expires, and the day after.
Instants == {0, MonthlyDays, MonthlyDays + 1}

VARIABLES
    users,          \* db.users: sequence of User documents
    subscriptions,  \* db.subscriptions: sequence of Subscription documents
    now,            \* datetime.utcnow(), in days
    pc,             \* per handler: the await it is suspended at, or "idle"
    data,           \* per handler: the request (path / body parameters)
    sub,            \* per handler: the local Subscription / User being handled
    result,         \* per handler: modified_count of its update_many
    resp,           \* the response the last step sent, NoResp if it sent none
    raced,          \* history: user ids two subscribe calls have overlapped on
    instrumentals,  \* db.instrumentals: sequence of Instrumental documents
    minted          \* number of Instrumental ids uuid4 has handed out

vars == <<users, subscriptions, now, pc, data, sub, result, resp, raced,
          instrumentals, minted>>

\* An id that no User document carries (ids are handed out from 1).
UnknownUserId == MaxUsers + 1

NoData == [user_id |-> 0, plan |-> "", device_id |-> "", instrumental_id |-> 0]
\* A response: the endpoint and the parameters of the request it answers
\* (<<user_id>>, <<user_id, plan>> or <<device_id>>), its boolean field
\* (is_subscribed, restored, cancelled; TRUE where the endpoint has none) and
\* the document it carries.  has_doc tells whether the body is, or has a key
\* for, a document: with has_doc the document is doc, <<>> for null; without
\* it the body has no such key (it carries a message) and doc is <<>>.
\* status is the HTTP status: 200 unless the handler raised HTTPException.
NoResp ==
    [op |-> "", key |-> <<>>, flag |-> FALSE, doc |-> <<>>, has_doc |-> FALSE,
     status |-> 0]

\* return <model>, or return {..., "subscription": doc}
Response(op, key, flag, doc) ==
    [op |-> op, key |-> key, flag |-> flag, doc |-> doc, has_doc |-> TRUE,
     status |-> 200]

\* return {"message": ..., ...}: a body with no key for a document.
Message(op, key, flag) ==
    [op |-> op, key |-> key, flag |-> flag, doc |-> <<>>, has_doc |-> FALSE,
     status |-> 200]

\* raise HTTPException(status_code=...)
HTTPException(op, key, status_code) ==
    [op |-> op, key |-> key, flag |-> FALSE, doc |-> <<>>, has_doc |-> FALSE,
     status |-> status_code]

\* ------------------------------------------------------------- the models
\* User(device_id=...): id from uuid4, is_subscribed defaults to False,
\* created_at to utcnow().
User(id, device_id) ==
    [id |-> id, device_id |-> device_id, is_subscribed |-> FALSE,
     created_at |-> now]

\* Subscription(user_id, plan, price, expires_at): id from uuid4,
\* is_active defaults to True, subscribed_at to utcnow().
Subscription(id, user_id, plan, price, expires_at) ==
    [id |-> id, user_id |-> user_id, is_active |-> TRUE, plan |-> plan,
     price |-> price, subscribed_at |-> now, expires_at |-> expires_at]

\* ------------------------------------------------------------- the store
\* {"device_id": device_id}: indices of the matching user documents.
UsersOfDevice(device_id) ==
    {i \in 1..Len(users) : users[i].device_id = device_id}
\* Every row of a user, active or not (a filter the handlers never use; the
\* faulty variants of the lookups below do).
RowsOfUser(user_id) ==
    {i \in 1..Len(subscriptions) : subscriptions[i].user_id = user_id}

ActiveOf(user_id, s) == s.user_id = user_id /\ s.is_active

\* {"user_id": user_id, "is_active": True}
ActiveRows(user_id) ==
    {i \in 1..Len(subscriptions) :
        ActiveOf(user_id, subscriptions[i])}

\* Variant: the update flips is_active instead of setting it to False.
SetInactiveById_Flips(subs, id) ==
    [i \in 1..Len(subs) |->
        IF subs[i].id = id
        THEN [subs[i] EXCEPT !.is_active = ~subs[i].is_active]
        ELSE subs[i]]

\* db.subscriptions.update_one({"id": id}, {"$set": {"is_active": False}})
SetInactiveById(subs, id) ==
    IF \E i \in 1..Len(subs) : subs[i].id = id
    THEN LET k == CHOOSE i \in 1..Len(subs) :
                    subs[i].id = id /\ \A j \in 1..i-1 : subs[j].id # id
         IN [subs EXCEPT ![k].is_active = FALSE]
    ELSE subs

\* Mutant: update_one in place of update_many, only the first match is set.
SetInactiveMany_OnlyFirst(subs, user_id) ==
    IF \E i \in 1..Len(subs) : ActiveOf(user_id, subs[i])
    THEN LET k == CHOOSE i \in 1..Len(subs) :
                    /\ ActiveOf(user_id, subs[i])
                    /\ \A j \in 1..i-1 : ~ActiveOf(user_id, subs[j])
         IN [subs EXCEPT ![k].is_active = FALSE]
    ELSE subs

\* Mutant: the filter of the bulk update leaves out user_id.
SetInactiveMany_AllUsers(subs, user_id) ==
    [i \in 1..Len(subs) |-> [subs[i] EXCEPT !.is_active = FALSE]]

\* db.subscriptions.update_many({"user_id": u, "is_active": True},
\*                              {"$set": {"is_active": False}})
SetInactiveMany(subs, user_id) ==
    [i \in 1..Len(subs) |->
        IF ActiveOf(user_id, subs[i])
        THEN [subs[i] EXCEPT !.is_active = FALSE]
        ELSE subs[i]]

\* Mutant: update_one(..., upsert=True): a user document is created when
\* none matches.
SetIsSubscribed_Upsert(us, user_id, v) ==
    IF \E i \in 1..Len(us) : us[i].id = user_id
    THEN LET k == CHOOSE i \in 1..Len(us) :
                    us[i].id = user_id /\ \A j \in 1..i-1 : us[j].id # user_id
         IN [us EXCEPT ![k].is_subscribed = v]
    ELSE Append(us, [id |-> user_id, device_id |-> "", is_subscribed |-> v,
                     created_at |-> 0])

\* Variant: the update has an empty filter and sets the flag of every user.
SetIsSubscribed_AllUsers(us, user_id, v) ==
    [i \in 1..Len(us) |-> [us[i] EXCEPT !.is_subscribed = v]]

\* db.users.update_one({"id": user_id}, {"$set": {"is_subscribed": v}})
SetIsSubscribed(us, user_id, v) ==
    IF \E i \in 1..Len(us) : us[i].id = user_id
    THEN LET k == CHOOSE i \in 1..Len(us) :
                    us[i].id = user_id /\ \A j \in 1..i-1 : us[j].id # user_id
         IN [us EXCEPT ![k].is_subscribed = v]
    ELSE us

\* uuid4(): an id no stored or pending document carries.
PendingSubs == Cardinality({p \in Procs : pc[p] = "subscribe_insert"})
PendingUsers == Cardinality({p \in Procs : pc[p] = "create_or_get_user_insert"})
NewSubId == Len(subscriptions) + PendingSubs + 1
NewUserId == Len(users) + PendingUsers + 1

\* user ids a client may send: those of stored users, or one of no user.
UserIdInputs == {users[i].id : i \in 1..Len(users)} \cup {UnknownUserId}

\* Mutant: the else branch is the yearly one.
PlanDays_ElseYearly(plan) == IF plan = "monthly" THEN MonthlyDays ELSE YearlyDays

\* Mutant: the two prices are swapped.
PlanPrice_Swapped(plan) == IF plan = "yearly" THEN MonthlyPrice ELSE YearlyPrice

\* Variant: no days are added, the row expires at the instant it is made.
PlanDays_Zero(plan) == 0

\* if data.plan == "yearly": ... else: ...
PlanDays(plan) == IF plan = "yearly" THEN YearlyDays ELSE MonthlyDays
PlanPrice(plan) == IF plan = "yearly" THEN YearlyPrice ELSE MonthlyPrice

\* Mutant: the comparison is reversed.
IsExpired_Reversed(s, t) == s.expires_at # Null /\ s.expires_at > t

\* sub.expires_at and sub.expires_at < datetime.utcnow()
IsExpired(s, t) == s.expires_at # Null /\ s.expires_at < t

Idle(p) == pc[p] = "idle"

\* The handlers in the middle of a subscribe call for user_id.
InSubscribe(user_id) ==
    {q \in Procs : /\ pc[q] \in {"subscribe_insert", "subscribe_update_user"}
                   /\ data[q].user_id = user_id}

\* The handler returns r.
Finish(p, r) ==
    /\ pc' = [pc EXCEPT ![p] = "idle"]
    /\ data' = [data EXCEPT ![p] = NoData]
    /\ sub' = [sub EXCEPT ![p] = <<>>]
    /\ result' = [result EXCEPT ![p] = 0]
    /\ resp' = r

\* The handler awaits its next store call.
Suspend(p, label, d, s, n) ==
    /\ pc' = [pc EXCEPT ![p] = label]
    /\ data' = [data EXCEPT ![p] = d]
    /\ sub' = [sub EXCEPT ![p] = s]
    /\ result' = [result EXCEPT ![p] = n]
    /\ resp' = NoResp

\* ------------------------------------------------------ create_or_get_user
\* find_one({"device_id": ...}); return the existing user, or build a new one.
create_or_get_user_find(p, device_id) ==
    /\ Idle(p)
    /\ \/ \E i \in UsersOfDevice(device_id) :
            Finish(p, Response("create_or_get_user", <<device_id>>, TRUE, <<users[i]>>))
       \/ /\ UsersOfDevice(device_id) = {}
          /\ Len(users) + PendingUsers < MaxUsers
          /\ Suspend(p, "create_or_get_user_insert",
                     [NoData EXCEPT !.device_id = device_id],
                     <<User(NewUserId, device_id)>>, 0)
    /\ UNCHANGED <<users, subscriptions, now, raced, instrumentals, minted>>

\* insert_one(user.dict()); return user.
create_or_get_user_insert(p) ==
    /\ pc[p] = "create_or_get_user_insert"
    /\ users' = Append(users, sub[p][1])
    /\ Finish(p, Response("create_or_get_user", <<data[p].device_id>>, TRUE, sub[p]))
    /\ UNCHANGED <<subscriptions, now, raced, instrumentals, minted>>

\* ---------------------------------------------------------------- subscribe
\* Mutant: no lookup of an existing active row, every call builds a new row.
subscribe_find_NoLookup(p, user_id, plan) ==
    /\ Idle(p)
    /\ Len(subscriptions) + PendingSubs < MaxRaceSubs
    /\ Suspend(p, "subscribe_insert",
               [NoData EXCEPT !.user_id = user_id, !.plan = plan],
               <<Subscription(NewSubId, user_id, plan, PlanPrice(plan),
                              now + PlanDays(plan))>>, 0)
    /\ raced' = IF InSubscribe(user_id) # {} THEN raced \cup {user_id} ELSE raced
    /\ UNCHANGED <<users, subscriptions, now, instrumentals, minted>>

\* Mutant: the lookup filters by user_id only, not by is_active.
subscribe_find_AnyRow(p, user_id, plan) ==
    /\ Idle(p)
    /\ \/ \E i \in RowsOfUser(user_id) :
            Finish(p, Response("subscribe", <<user_id, plan>>, TRUE,
                               <<subscriptions[i]>>))
       \/ /\ RowsOfUser(user_id) = {}
          /\ Len(subscriptions) + PendingSubs < MaxRaceSubs
          /\ Suspend(p, "subscribe_insert",
                     [NoData EXCEPT !.user_id = user_id, !.plan = plan],
                     <<Subscription(NewSubId, user_id, plan, PlanPrice(plan),
                                    now + PlanDays(plan))>>, 0)
    /\ raced' = IF InSubscribe(user_id) # {} THEN raced \cup {user_id} ELSE raced
    /\ UNCHANGED <<users, subscriptions, now, instrumentals, minted>>

\* Variant: subscribe looks the user up first and answers not-found when no
\* User document carries the id.
subscribe_find_ChecksUser(p, user_id, plan) ==
    /\ Idle(p)
    /\ \/ /\ \A i \in 1..Len(users) : users[i].id # user_id
          /\ Finish(p, HTTPException("subscribe", <<user_id, plan>>, 404))
       \/ /\ \E i \in 1..Len(users) : users[i].id = user_id
          /\ \E i \in ActiveRows(user_id) :
                Finish(p, Response("subscribe", <<user_id, plan>>, TRUE,
                                   <<subscriptions[i]>>))
       \/ /\ \E i \in 1..Len(users) : users[i].id = user_id
          /\ ActiveRows(user_id) = {}
          /\ Len(subscriptions) + PendingSubs < MaxRaceSubs
          /\ Suspend(p, "subscribe_insert",
                     [NoData EXCEPT !.user_id = user_id, !.plan = plan],
                     <<Subscription(NewSubId, user_id, plan, PlanPrice(plan),
                                    now + PlanDays(plan))>>, 0)
    /\ raced' = IF InSubscribe(user_id) # {} THEN raced \cup {user_id} ELSE raced
    /\ UNCHANGED <<users, subscriptions, now, instrumentals, minted>>

\* Mutant: the lookup filters by plan too, so a user with an active row of
\* another plan is given a new row.
subscribe_find_ByPlan(p, user_id, plan) ==
    /\ Idle(p)
    /\ \/ \E i \in ActiveRows(user_id) :
            /\ subscriptions[i].plan = plan
            /\ Finish(p, Response("subscribe", <<user_id, plan>>, TRUE,
                                  <<subscriptions[i]>>))
       \/ /\ \A i \in ActiveRows(user_id) : subscriptions[i].plan # plan
          /\ Len(subscriptions) + PendingSubs < MaxRaceSubs
          /\ Suspend(p, "subscribe_insert",
                     [NoData EXCEPT !.user_id = user_id, !.plan = plan],
                     <<Subscription(NewSubId, user_id, plan, PlanPrice(plan),
                                    now + PlanDays(plan))>>, 0)
    /\ raced' = IF InSubscribe(user_id) # {} THEN raced \cup {user_id} ELSE raced
    /\ UNCHANGED <<users, subscriptions, now, instrumentals, minted>>

\* find_one active; return it, or build the new Subscription.
subscribe_find(p, user_id, plan) ==
    /\ Idle(p)
    /\ \/ \E i \in ActiveRows(user_id) :
            Finish(p, Response("subscribe", <<user_id, plan>>, TRUE,
                               <<subscriptions[i]>>))
       \/ /\ ActiveRows(user_id) = {}
          /\ Len(subscriptions) + PendingSubs < MaxRaceSubs
          /\ Suspend(p, "subscribe_insert",
                     [NoData EXCEPT !.user_id = user_id, !.plan = plan],
                     <<Subscription(NewSubId, user_id, plan, PlanPrice(plan),
                                    now + PlanDays(plan))>>, 0)
    /\ raced' = IF InSubscribe(user_id) # {} THEN raced \cup {user_id} ELSE raced
    /\ UNCHANGED <<users, subscriptions, now, instrumentals, minted>>

\* Mutant: the two writes in the other order, this await is the update of
\* the user's flag.
subscribe_insert_FlagFirst(p) ==
    /\ pc[p] = "subscribe_insert"
    /\ users' = SetIsSubscribed(users, data[p].user_id, TRUE)
    /\ Suspend(p, "subscribe_update_user", data[p], sub[p], 0)
    /\ UNCHANGED <<subscriptions, now, raced, instrumentals, minted>>

\* Mutant: replace_one({"user_id": ...}, upsert=True): a row the user already
\* has is overwritten by the new one, a row is inserted only if there is none.
subscribe_insert_Upsert(p) ==
    /\ pc[p] = "subscribe_insert"
    /\ subscriptions' =
            IF RowsOfUser(data[p].user_id) # {}
            THEN LET k == CHOOSE i \in RowsOfUser(data[p].user_id) :
                            \A j \in RowsOfUser(data[p].user_id) : i <= j
                 IN [subscriptions EXCEPT ![k] = sub[p][1]]
            ELSE Append(subscriptions, sub[p][1])
    /\ Suspend(p, "subscribe_update_user", data[p], sub[p], 0)
    /\ UNCHANGED <<users, now, raced, instrumentals, minted>>

\* insert_one(subscription.dict()).
subscribe_insert(p) ==
    /\ pc[p] = "subscribe_insert"
    /\ subscriptions' = Append(subscriptions, sub[p][1])
    /\ Suspend(p, "subscribe_update_user", data[p], sub[p], 0)
    /\ UNCHANGED <<users, now, raced, instrumentals, minted>>

\* Variant: subscribe returns the inserted row and leaves the user document.
subscribe_update_user_SkipsFlag(p) ==
    /\ pc[p] = "subscribe_update_user"
    /\ Finish(p, Response("subscribe", <<data[p].user_id, data[p].plan>>, TRUE, sub[p]))
    /\ UNCHANGED <<users, subscriptions, now, raced, instrumentals, minted>>

\* users.update_one(is_subscribed=True); return subscription.
subscribe_update_user(p) ==
    /\ pc[p] = "subscribe_update_user"
    /\ users' = SetIsSubscribed(users, data[p].user_id, TRUE)
    /\ Finish(p, Response("subscribe", <<data[p].user_id, data[p].plan>>, TRUE, sub[p]))
    /\ UNCHANGED <<subscriptions, now, raced, instrumentals, minted>>

\* ------------------------------------------------- get_subscription_status
\* Mutant: the lookup filters by user_id only, not by is_active.
get_subscription_status_find_AnyRow(p, user_id) ==
    /\ Idle(p)
    /\ \/ /\ RowsOfUser(user_id) = {}
          /\ Finish(p, Response("get_subscription_status", <<user_id>>, FALSE, <<>>))
       \/ \E i \in RowsOfUser(user_id) :
            /\ IsExpired(subscriptions[i], now)
            /\ Suspend(p, "get_subscription_status_expire",
                       [NoData EXCEPT !.user_id = user_id], <<subscriptions[i]>>, 0)
       \/ \E i \in RowsOfUser(user_id) :
            /\ ~IsExpired(subscriptions[i], now)
            /\ Finish(p, Response("get_subscription_status", <<user_id>>, TRUE,
                                  <<subscriptions[i]>>))
    /\ UNCHANGED <<users, subscriptions, now, raced, instrumentals, minted>>

\* find_one active; none: {False, None}; expired: go on to deactivate it;
\* otherwise {True, sub}.
get_subscription_status_find(p, user_id) ==
    /\ Idle(p)
    /\ \/ /\ ActiveRows(user_id) = {}
          /\ Finish(p, Response("get_subscription_status", <<user_id>>, FALSE, <<>>))
       \/ \E i \in ActiveRows(user_id) :
            /\ IsExpired(subscriptions[i], now)
            /\ Suspend(p, "get_subscription_status_expire",
                       [NoData EXCEPT !.user_id = user_id], <<subscriptions[i]>>, 0)
       \/ \E i \in ActiveRows(user_id) :
            /\ ~IsExpired(subscriptions[i], now)
            /\ Finish(p, Response("get_subscription_status", <<user_id>>, TRUE,
                                  <<subscriptions[i]>>))
    /\ UNCHANGED <<users, subscriptions, now, raced, instrumentals, minted>>

\* subscriptions.update_one({"id": sub.id}, is_active=False).
get_subscription_status_expire(p) ==
    /\ pc[p] = "get_subscription_status_expire"
    /\ subscriptions' = SetInactiveById(subscriptions, sub[p][1].id)
    /\ Suspend(p, "get_subscription_status_update_user", data[p], sub[p], 0)
    /\ UNCHANGED <<users, now, raced, instrumentals, minted>>

\* Mutant: the flag is set to True, as in subscribe.
get_subscription_status_update_user_SetsTrue(p) ==
    /\ pc[p] = "get_subscription_status_update_user"
    /\ users' = SetIsSubscribed(users, data[p].user_id, TRUE)
    /\ Finish(p, Response("get_subscription_status", <<data[p].user_id>>, FALSE, <<>>))
    /\ UNCHANGED <<subscriptions, now, raced, instrumentals, minted>>

\* users.update_one(is_subscribed=False); return {False, None}.
get_subscription_status_update_user(p) ==
    /\ pc[p] = "get_subscription_status_update_user"
    /\ users' = SetIsSubscribed(users, data[p].user_id, FALSE)
    /\ Finish(p, Response("get_subscription_status", <<data[p].user_id>>, FALSE, <<>>))
    /\ UNCHANGED <<subscriptions, now, raced, instrumentals, minted>>

\* --------------------------------------------------------- restore_purchase
\* Mutant: an expired row is deactivated and not restored, as in the status
\* check.
restore_purchase_ChecksExpiry(p, user_id) ==
    /\ Idle(p)
    /\ \/ \E i \in ActiveRows(user_id) :
            /\ ~IsExpired(subscriptions[i], now)
            /\ subscriptions' = subscriptions
            /\ Finish(p, Response("restore_purchase", <<user_id>>, TRUE,
                                  <<subscriptions[i]>>))
       \/ \E i \in ActiveRows(user_id) :
            /\ IsExpired(subscriptions[i], now)
            /\ subscriptions' = SetInactiveById(subscriptions, subscriptions[i].id)
            /\ Finish(p, Message("restore_purchase", <<user_id>>, FALSE))
       \/ /\ ActiveRows(user_id) = {}
          /\ subscriptions' = subscriptions
          /\ Finish(p, Message("restore_purchase", <<user_id>>, FALSE))
    /\ UNCHANGED <<users, now, raced, instrumentals, minted>>

\* find_one active; {"restored": True, "subscription": ...} or
\* {"restored": False, "message": ...}, a body with no subscription key.
restore_purchase(p, user_id) ==
    /\ Idle(p)
    /\ \/ \E i \in ActiveRows(user_id) :
            Finish(p, Response("restore_purchase", <<user_id>>, TRUE, <<subscriptions[i]>>))
       \/ /\ ActiveRows(user_id) = {}
          /\ Finish(p, Message("restore_purchase", <<user_id>>, FALSE))
    /\ UNCHANGED <<users, subscriptions, now, raced, instrumentals, minted>>

\* ------------------------------------------------------ cancel_subscription
\* Mutant: find_one and update_one by id in place of update_many: only the
\* latest active row of the user is set inactive.
cancel_subscription_update_many_LatestOnly(p, user_id) ==
    /\ Idle(p)
    /\ subscriptions' =
            IF ActiveRows(user_id) = {} THEN subscriptions
            ELSE LET k == CHOOSE i \in ActiveRows(user_id) :
                            \A j \in ActiveRows(user_id) : j <= i
                 IN [subscriptions EXCEPT ![k].is_active = FALSE]
    /\ Suspend(p, "cancel_subscription_update_user",
               [NoData EXCEPT !.user_id = user_id], <<>>,
               IF ActiveRows(user_id) = {} THEN 0 ELSE 1)
    /\ UNCHANGED <<users, now, raced, instrumentals, minted>>

\* Mutant: the count is that of the rows of the user, active or not.
cancel_subscription_update_many_CountsAllRows(p, user_id) ==
    /\ Idle(p)
    /\ subscriptions' = SetInactiveMany(subscriptions, user_id)
    /\ Suspend(p, "cancel_subscription_update_user",
               [NoData EXCEPT !.user_id = user_id], <<>>,
               Cardinality(RowsOfUser(user_id)))
    /\ UNCHANGED <<users, now, raced, instrumentals, minted>>

\* subscriptions.update_many(active of user_id, is_active=False).
cancel_subscription_update_many(p, user_id) ==
    /\ Idle(p)
    /\ subscriptions' = SetInactiveMany(subscriptions, user_id)
    /\ Suspend(p, "cancel_subscription_update_user",
               [NoData EXCEPT !.user_id = user_id], <<>>,
               Cardinality(ActiveRows(user_id)))
    /\ UNCHANGED <<users, now, raced, instrumentals, minted>>

\* Mutant: cancelled is true whatever the bulk update modified.
cancel_subscription_update_user_AlwaysCancelled(p) ==
    /\ pc[p] = "cancel_subscription_update_user"
    /\ users' = SetIsSubscribed(users, data[p].user_id, FALSE)
    /\ Finish(p, Message("cancel_subscription", <<data[p].user_id>>, TRUE))
    /\ UNCHANGED <<subscriptions, now, raced, instrumentals, minted>>

\* Mutant: the user's flag is left as it is.
cancel_subscription_update_user_KeepsFlag(p) ==
    /\ pc[p] = "cancel_subscription_update_user"
    /\ Finish(p, Message("cancel_subscription", <<data[p].user_id>>,
                         result[p] > 0))
    /\ UNCHANGED <<users, subscriptions, now, raced, instrumentals, minted>>

\* Mutant: as update_audio_url does, 404 when the update matched no document.
cancel_subscription_update_user_ChecksMatched(p) ==
    /\ pc[p] = "cancel_subscription_update_user"
    /\ users' = SetIsSubscribed(users, data[p].user_id, FALSE)
    /\ IF \A i \in 1..Len(users) : users[i].id # data[p].user_id
       THEN Finish(p, HTTPException("cancel_subscription", <<data[p].user_id>>, 404))
       ELSE Finish(p, Message("cancel_subscription", <<data[p].user_id>>,
                              result[p] > 0))
    /\ UNCHANGED <<subscriptions, now, raced, instrumentals, minted>>

\* users.update_one(is_subscribed=False); return modified_count > 0.
cancel_subscription_update_user(p) ==
    /\ pc[p] = "cancel_subscription_update_user"
    /\ users' = SetIsSubscribed(users, data[p].user_id, FALSE)
    /\ Finish(p, Message("cancel_subscription", <<data[p].user_id>>, result[p] > 0))
    /\ UNCHANGED <<subscriptions, now, raced, instrumentals, minted>>

\* ------------------------------------------------------------------ catalog
\* An Optional value is <<>> for None and <<v>> for the value v.  Of the
\* fields of Instrumental the model keeps id, title, mood, duration,
\* is_premium, is_featured, audio_url and file_size; duration_formatted,
\* thumbnail_color and created_at go through the same code as title.

\* Instrumental(**data.dict()): the fields of InstrumentalCreate, an id from
\* uuid4; a field the model does not declare (ringtone) is dropped.
Instrumental(id, body) ==
    [id |-> id, title |-> body.title, mood |-> body.mood,
     duration |-> body.duration, is_premium |-> body.is_premium,
     is_featured |-> body.is_featured, audio_url |-> body.audio_url,
     file_size |-> body.file_size]

\* InstrumentalUpdate(**body).dict(): every declared field, None where the
\* body does not name it or gives null; an undeclared field is dropped.
\* A body is [named: the fields the JSON names, val: their values].
InstrumentalUpdate(body) ==
    [title |-> IF "title" \in body.named THEN body.val.title ELSE <<>>,
     mood |-> IF "mood" \in body.named THEN body.val.mood ELSE <<>>,
     duration |-> IF "duration" \in body.named THEN body.val.duration ELSE <<>>,
     is_premium |-> IF "is_premium" \in body.named THEN body.val.is_premium ELSE <<>>,
     is_featured |-> IF "is_featured" \in body.named THEN body.val.is_featured ELSE <<>>,
     audio_url |-> IF "audio_url" \in body.named THEN body.val.audio_url ELSE <<>>,
     file_size |-> IF "file_size" \in body.named THEN body.val.file_size ELSE <<>>]

\* The fields InstrumentalUpdate declares.
UpdateFields ==
    {"title", "mood", "duration", "is_premium", "is_featured", "audio_url", "file_size"}

\* {k: v for k, v in data.dict().items() if v is not None}: its keys.
update_data(d) == {f \in UpdateFields : d[f] # <<>>}

\* Variant: the update leaves out every falsy value, not just None.
SetFields_SkipsFalsy(item, d) ==
    [id |-> item.id,
     title |-> IF d.title # <<>> THEN d.title[1] ELSE item.title,
     mood |-> IF d.mood # <<>> THEN d.mood[1] ELSE item.mood,
     duration |-> IF d.duration # <<>> /\ d.duration # <<0>>
                  THEN d.duration[1] ELSE item.duration,
     is_premium |-> IF d.is_premium = <<TRUE>> THEN TRUE ELSE item.is_premium,
     is_featured |-> IF d.is_featured = <<TRUE>> THEN TRUE ELSE item.is_featured,
     audio_url |-> IF d.audio_url # <<>> THEN d.audio_url ELSE item.audio_url,
     file_size |-> IF d.file_size # <<>> /\ d.file_size # <<0>>
                   THEN d.file_size[1] ELSE item.file_size]

\* {"$set": update_data} on one document.
SetFields(item, d) ==
    [id |-> item.id,
     title |-> IF d.title # <<>> THEN d.title[1] ELSE item.title,
     mood |-> IF d.mood # <<>> THEN d.mood[1] ELSE item.mood,
     duration |-> IF d.duration # <<>> THEN d.duration[1] ELSE item.duration,
     is_premium |-> IF d.is_premium # <<>> THEN d.is_premium[1] ELSE item.is_premium,
     is_featured |-> IF d.is_featured # <<>> THEN d.is_featured[1] ELSE item.is_featured,
     audio_url |-> IF d.audio_url # <<>> THEN d.audio_url ELSE item.audio_url,
     file_size |-> IF d.file_size # <<>> THEN d.file_size[1] ELSE item.file_size]

\* {"id": instrumental_id}: indices of the matching documents.
ItemsOfId(id) == {i \in 1..Len(instrumentals) : instrumentals[i].id = id}

\* The first document a filter matches (find_one, update_one, delete_one).
FirstOf(S) == CHOOSE i \in S : \A j \in S : i <= j

\* The caps of the two listings: to_list(100) and to_list(10).
ListCap == 100
FeaturedCap == 10

\* Variant: the cursor is read to its end.
to_list_NoCap(s, n) == s

\* cursor.to_list(n): the first n documents of the cursor.
to_list(s, n) == IF Len(s) <= n THEN s ELSE SubSeq(s, 1, n)

\* The lower-case form of a character, as the "i" option compares them.
UpperCase == "ABCDEFGHIJKLMNOPQRSTUVWXYZ"
LowerCase == "abcdefghijklmnopqrstuvwxyz"
lower_map ==
    [c \in {SubSeq(UpperCase, k, k) : k \in 1..Len(UpperCase)} |->
        LET k == CHOOSE k \in 1..Len(UpperCase) : SubSeq(UpperCase, k, k) = c
        IN SubSeq(LowerCase, k, k)]
lower(c) == IF c \in DOMAIN lower_map THEN lower_map[c] ELSE c

\* {"$regex": pattern, "$options": "i"} on a string: the pattern matches at
\* some position of the string, letters compared without case and "."
\* matching any character (patterns of letters, digits, spaces and ".").
regex(pattern, s) ==
    \E k \in 0..(Len(s) - Len(pattern)) :
        \A j \in 1..Len(pattern) :
            \/ SubSeq(pattern, j, j) = "."
            \/ lower(SubSeq(pattern, j, j)) = lower(SubSeq(s, k + j, k + j))

\* The documents of a collection that satisfy a query, in stored order; a
\* key the query does not have is <<>>.
RECURSIVE find(_, _, _, _)
find(coll, mood, is_premium, title) ==
    IF coll = <<>> THEN <<>>
    ELSE LET i == Head(coll)
             ok == /\ mood = <<>> \/ i.mood = mood[1]
                   /\ is_premium = <<>> \/ i.is_premium = is_premium[1]
                   /\ title = <<>> \/ regex(title[1], i.title)
         IN (IF ok THEN <<i>> ELSE <<>>)
                \o find(Tail(coll), mood, is_premium, title)

RECURSIVE find_featured(_)
find_featured(coll) ==
    IF coll = <<>> THEN <<>>
    ELSE (IF Head(coll).is_featured THEN <<Head(coll)>> ELSE <<>>)
            \o find_featured(Tail(coll))

\* The sample catalog of the seed endpoint.
SAMPLE_INSTRUMENTALS ==
    <<
       [title |-> "Mawla Ya Salli - Peaceful", mood |-> "Spiritual", duration |-> 245,
        is_premium |-> FALSE, is_featured |-> TRUE,
        audio_url |-> <<"https://www.soundhelix.com/examples/mp3/SoundHelix-Song-1.mp3">>,
        file_size |-> 4500000],
       [title |-> "Nasheed of Dawn", mood |-> "Calm", duration |-> 312,
        is_premium |-> TRUE, is_featured |-> TRUE,
        audio_url |-> <<"https://www.soundhelix.com/examples/mp3/SoundHelix-Song-2.mp3">>,
        file_size |-> 5200000],
       [title |-> "Morning Dhikr", mood |-> "Calm", duration |-> 180,
        is_premium |-> FALSE, is_featured |-> FALSE,
        audio_url |-> <<"https://www.soundhelix.com/examples/mp3/SoundHelix-Song-3.mp3">>,
        file_size |-> 3200000],
       [title |-> "Peaceful Heart", mood |-> "Soft", duration |-> 210,
        is_premium |-> FALSE, is_featured |-> FALSE,
        audio_url |-> <<"https://www.soundhelix.com/examples/mp3/SoundHelix-Song-4.mp3">>,
        file_size |-> 3800000],
       [title |-> "Blessed Sunrise", mood |-> "Spiritual", duration |-> 195,
        is_premium |-> FALSE, is_featured |-> FALSE,
        audio_url |-> <<"https://www.soundhelix.com/examples/mp3/SoundHelix-Song-5.mp3">>,
        file_size |-> 3500000],
       [title |-> "Gentle Breeze", mood |-> "Calm", duration |-> 240,
        is_premium |-> FALSE, is_featured |-> FALSE,
        audio_url |-> <<"https://www.soundhelix.com/examples/mp3/SoundHelix-Song-6.mp3">>,
        file_size |-> 4200000],
       [title |-> "Silent Prayer", mood |-> "Soft", duration |-> 165,
        is_premium |-> FALSE, is_featured |-> FALSE,
        audio_url |-> <<"https://www.soundhelix.com/examples/mp3/SoundHelix-Song-7.mp3">>,
        file_size |-> 2900000],
       [title |-> "Ya Sahib al-Taj", mood |-> "Spiritual", duration |-> 420,
        is_premium |-> TRUE, is_featured |-> FALSE,
        audio_url |-> <<"https://www.soundhelix.com/examples/mp3/SoundHelix-Song-8.mp3">>,
        file_size |-> 7200000],
       [title |-> "Drums of Devotion", mood |-> "Drums", duration |-> 285,
        is_premium |-> TRUE, is_featured |-> FALSE,
        audio_url |-> <<"https://www.soundhelix.com/examples/mp3/SoundHelix-Song-9.mp3">>,
        file_size |-> 5000000],
       [title |-> "Energetic Praise", mood |-> "Energetic", duration |-> 198,
        is_premium |-> TRUE, is_featured |-> FALSE,
        audio_url |-> <<"https://www.soundhelix.com/examples/mp3/SoundHelix-Song-10.mp3">>,
        file_size |-> 3600000],
       [title |-> "Sacred Rhythm", mood |-> "Drums", duration |-> 330,
        is_premium |-> TRUE, is_featured |-> FALSE,
        audio_url |-> <<"https://www.soundhelix.com/examples/mp3/SoundHelix-Song-11.mp3">>,
        file_size |-> 5800000],
       [title |-> "Night of Peace", mood |-> "Calm", duration |-> 480,
        is_premium |-> TRUE, is_featured |-> FALSE,
        audio_url |-> <<"https://www.soundhelix.com/examples/mp3/SoundHelix-Song-12.mp3">>,
        file_size |-> 8200000],
       [title |-> "Joyful Celebration", mood |-> "Energetic", duration |-> 252,
        is_premium |-> TRUE, is_featured |-> FALSE,
        audio_url |-> <<"https://www.soundhelix.com/examples/mp3/SoundHelix-Song-13.mp3">>,
        file_size |-> 4500000],
       [title |-> "Soft Meditation", mood |-> "Soft", duration |-> 360,
        is_premium |-> TRUE, is_featured |-> FALSE,
        audio_url |-> <<"https://www.soundhelix.com/examples/mp3/SoundHelix-Song-14.mp3">>,
        file_size |-> 6300000],
       [title |-> "Divine Harmony", mood |-> "Spiritual", duration |-> 390,
        is_premium |-> TRUE, is_featured |-> FALSE,
        audio_url |-> <<"https://www.soundhelix.com/examples/mp3/SoundHelix-Song-15.mp3">>,
        file_size |-> 6800000]
    >>

\* POST /seed, its first await: delete_many({}); the loop over the samples
\* follows, result[p] the index of the sample to insert next.
seed_database_delete_many(p) ==
    /\ Idle(p)
    /\ instrumentals' = <<>>
    /\ Suspend(p, "seed_database_insert_one", NoData, <<>>, 1)
    /\ UNCHANGED <<users, subscriptions, now, raced, minted>>

\* insert_one(Instrumental(**item).dict()) for one sample; after the last
\* one the handler returns its message.
seed_database_insert_one(p) ==
    /\ pc[p] = "seed_database_insert_one"
    /\ instrumentals' =
            Append(instrumentals,
                   Instrumental(minted + 1, SAMPLE_INSTRUMENTALS[result[p]]))
    /\ minted' = minted + 1
    /\ IF result[p] = Len(SAMPLE_INSTRUMENTALS)
       THEN Finish(p, Message("seed_database", <<>>, TRUE))
       ELSE Suspend(p, "seed_database_insert_one", NoData, <<>>, result[p] + 1)
    /\ UNCHANGED <<users, subscriptions, now, raced>>

\* POST /admin/instrumentals/{id}/audio: update_one sets audio_url and
\* file_size; nothing matched: 404.
update_audio_url(p, instrumental_id, audio_url, file_size) ==
    /\ Idle(p)
    /\ IF ItemsOfId(instrumental_id) = {}
       THEN /\ Finish(p, HTTPException("update_audio_url",
                                       <<instrumental_id, audio_url, file_size>>, 404))
            /\ instrumentals' = instrumentals
       ELSE /\ instrumentals' =
                    [instrumentals EXCEPT ![FirstOf(ItemsOfId(instrumental_id))] =
                        [@ EXCEPT !.audio_url = <<audio_url>>,
                                  !.file_size = file_size]]
            /\ Finish(p, Message("update_audio_url",
                                 <<instrumental_id, audio_url, file_size>>, TRUE))
    /\ UNCHANGED <<users, subscriptions, now, raced, minted>>

\* GET /instrumentals/{id}
get_instrumental(p, instrumental_id) ==
    /\ Idle(p)
    /\ IF ItemsOfId(instrumental_id) = {}
       THEN Finish(p, HTTPException("get_instrumental", <<instrumental_id>>, 404))
       ELSE Finish(p, Response("get_instrumental", <<instrumental_id>>, TRUE,
                               <<instrumentals[FirstOf(ItemsOfId(instrumental_id))]>>))
    /\ UNCHANGED <<users, subscriptions, now, raced, instrumentals, minted>>

\* POST /instrumentals
create_instrumental(p, body) ==
    /\ Idle(p)
    /\ instrumentals' = Append(instrumentals, Instrumental(minted + 1, body))
    /\ minted' = minted + 1
    /\ Finish(p, Response("create_instrumental", <<body>>, TRUE,
                          <<Instrumental(minted + 1, body)>>))
    /\ UNCHANGED <<users, subscriptions, now, raced>>

\* PUT /instrumentals/{id}: reject an empty update_data, else update_one;
\* nothing matched: 404; else go on to read the document back.
update_instrumental_update_one(p, instrumental_id, body) ==
    /\ Idle(p)
    /\ IF update_data(InstrumentalUpdate(body)) = {}
       THEN /\ Finish(p, HTTPException("update_instrumental",
                                       <<instrumental_id, body>>, 400))
            /\ instrumentals' = instrumentals
       ELSE IF ItemsOfId(instrumental_id) = {}
       THEN /\ Finish(p, HTTPException("update_instrumental",
                                       <<instrumental_id, body>>, 404))
            /\ instrumentals' = instrumentals
       ELSE /\ instrumentals' =
                    [instrumentals EXCEPT ![FirstOf(ItemsOfId(instrumental_id))] =
                        SetFields(@, InstrumentalUpdate(body))]
            /\ Suspend(p, "update_instrumental_find_one",
                       [NoData EXCEPT !.instrumental_id = instrumental_id],
                       <<body>>, 1)
    /\ UNCHANGED <<users, subscriptions, now, raced, minted>>

\* find_one({"id": ...}); return Instrumental(**instrumental), which raises
\* (status 500) on None.
update_instrumental_find_one(p) ==
    /\ pc[p] = "update_instrumental_find_one"
    /\ IF ItemsOfId(data[p].instrumental_id) = {}
       THEN Finish(p, HTTPException("update_instrumental",
                                   <<data[p].instrumental_id, sub[p][1]>>, 500))
       ELSE Finish(p, Response("update_instrumental",
                               <<data[p].instrumental_id, sub[p][1]>>, TRUE,
                               <<instrumentals[FirstOf(ItemsOfId(data[p].instrumental_id))]>>))
    /\ UNCHANGED <<users, subscriptions, now, raced, instrumentals, minted>>

\* Variant: delete answers for a stored id without removing its document.
delete_instrumental_KeepsDocument(p, instrumental_id) ==
    /\ Idle(p)
    /\ IF ItemsOfId(instrumental_id) = {}
       THEN Finish(p, HTTPException("delete_instrumental", <<instrumental_id>>, 404))
       ELSE Finish(p, Message("delete_instrumental", <<instrumental_id>>, TRUE))
    /\ UNCHANGED <<users, subscriptions, now, raced, instrumentals, minted>>

\* DELETE /instrumentals/{id}
delete_instrumental(p, instrumental_id) ==
    /\ Idle(p)
    /\ IF ItemsOfId(instrumental_id) = {}
       THEN /\ Finish(p, HTTPException("delete_instrumental", <<instrumental_id>>, 404))
            /\ instrumentals' = instrumentals
       ELSE /\ instrumentals' =
                    LET k == FirstOf(ItemsOfId(instrumental_id))
                    IN SubSeq(instrumentals, 1, k - 1)
                        \o SubSeq(instrumentals, k + 1, Len(instrumentals))
            /\ Finish(p, Message("delete_instrumental", <<instrumental_id>>, TRUE))
    /\ UNCHANGED <<users, subscriptions, now, raced, minted>>

\* GET /instrumentals?mood=&is_premium=&search=: the query leaves out a mood
\* that is None, empty or "All", an is_premium that is None, and a search
\* that is None or empty.
get_instrumentals(p, mood, is_premium, search) ==
    /\ Idle(p)
    /\ Finish(p, Response("get_instrumentals", <<mood, is_premium, search>>, TRUE,
            to_list(find(instrumentals,
                         IF mood # <<>> /\ mood # <<"">> /\ mood # <<"All">>
                         THEN mood ELSE <<>>,
                         is_premium,
                         IF search # <<>> /\ search # <<"">>
                         THEN search ELSE <<>>), ListCap)))
    /\ UNCHANGED <<users, subscriptions, now, raced, instrumentals, minted>>

\* GET /instrumentals/featured
get_featured_instrumentals(p) ==
    /\ Idle(p)
    /\ Finish(p, Response("get_featured_instrumentals", <<>>, TRUE,
            to_list(find_featured(instrumentals), FeaturedCap)))
    /\ UNCHANGED <<users, subscriptions, now, raced, instrumentals, minted>>

\* -------------------------------------------------------------------- clock
\* Time passes, up to the next instant a request arrives at.
Tick(t) ==
    /\ t > now
    /\ now' = t
    /\ resp' = NoResp
    /\ UNCHANGED <<users, subscriptions, pc, data, sub, result, raced, instrumentals, minted>>

\* -------------------------------------------------------------------- crash
\* The process dies while a handler is suspended at an await: the store keeps
\* what was written before, the rest of the handler never runs, and the
\* client gets no answer from it (recorded: the user of the request and the
\* await it died at).
Crash(p) ==
    /\ ~Idle(p)
    /\ Finish(p, Message("crash", <<data[p].user_id, pc[p]>>, FALSE))
    /\ UNCHANGED <<users, subscriptions, now, raced, instrumentals, minted>>

\* ------------------------------------------------------------ specification
Init ==
    /\ users = <<>>
    /\ subscriptions = <<>>
    /\ now = 0
    /\ pc = [p \in Procs |-> "idle"]
    /\ data = [p \in Procs |-> NoData]
    /\ sub = [p \in Procs |-> <<>>]
    /\ result = [p \in Procs |-> 0]
    /\ resp = NoResp
    /\ raced = {}
    /\ instrumentals = <<>>
    /\ minted = 0

\* No handler is in the middle of a request.
Quiet == \A q \in Procs : Idle(q)

\* A handler is in the middle of a registration.
Registering == \E q \in Procs : pc[q] = "create_or_get_user_insert"

\* The ids of the stored users.
UserIds == {users[i].id : i \in 1..Len(users)}

\* A handler takes a registration request from one of the devices devs.
Register(p, devs) == \E d \in devs : create_or_get_user_find(p, d)

\* The bound on the rows where subscribe calls do not race: a subscribe call
\* that will insert is taken only while fewer than MaxSubs rows are stored or
\* about to be.
Room(user_id) ==
    ActiveRows(user_id) # {} \/ Len(subscriptions) + PendingSubs < MaxSubs

\* A handler takes a subscription request for one of the user ids ids.
Entitle(p, ids) ==
    \/ \E u \in ids, pl \in Plans : Room(u) /\ subscribe_find(p, u, pl)
    \/ \E u \in ids : get_subscription_status_find(p, u)
    \/ \E u \in ids : restore_purchase(p, u)
    \/ \E u \in ids : cancel_subscription_update_many(p, u)

\* A suspended handler's store call completes.
Continue(p) ==
    \/ create_or_get_user_insert(p)
    \/ subscribe_insert(p)
    \/ subscribe_update_user(p)
    \/ get_subscription_status_expire(p)
    \/ get_subscription_status_update_user(p)
    \/ cancel_subscription_update_user(p)

\* Concurrent handlers: one device registers, alone, and the subscription
\* requests of registered users are handled concurrently.
Next ==
    \/ \E p \in Procs : Quiet /\ Register(p, {"devA"})
    \/ \E p \in Procs : ~Registering /\ Entitle(p, UserIds)
    \/ \E p \in Procs : Continue(p)
    \/ \E t \in Instants : Tick(t)

Spec == Init /\ [][Next]_vars

\* One handler: requests are handled one at a time, each to completion; they
\* name a registered user, or a user id no user has.
SeqNext ==
    \/ \E p \in {"h1"} : Quiet /\ Register(p, {"devA"})
    \/ \E p \in {"h1"} : Quiet /\ Entitle(p, UserIdInputs)
    \/ \E p \in {"h1"} : Continue(p)
    \/ \E t \in Instants : Tick(t)

SeqSpec == Init /\ [][SeqNext]_vars

\* One handler, and the process may die at any await of a request.
CrashNext ==
    \/ SeqNext
    \/ \E p \in {"h1"} : Crash(p)

CrashSpec == Init /\ [][CrashNext]_vars

\* The ids requests name: the first MaxItems of those minted so far, and 0,
\* which is never minted.
InstrumentalIds == 0..(IF minted < MaxItems THEN minted ELSE MaxItems)

\* The form fields of POST /admin/instrumentals/{id}/audio.
AudioUrls == {"u", "v"}
FileSizes == {0, 7}

\* Bodies of POST /instrumentals: the declared fields, and a ringtone entry
\* (<<>>: the body has none).
CreateBodies ==
    << [title |-> "a", mood |-> "Calm", duration |-> 180, is_premium |-> TRUE,
        is_featured |-> TRUE, audio_url |-> <<"u">>, file_size |-> 7,
        ringtone |-> <<"r1">>],
       [title |-> "b", mood |-> "Drums", duration |-> 0, is_premium |-> FALSE,
        is_featured |-> FALSE, audio_url |-> <<>>, file_size |-> 0,
        ringtone |-> <<>>] >>

\* A body of PUT /instrumentals/{id} that names no field.
NoFields ==
    [title |-> <<>>, mood |-> <<>>, duration |-> <<>>, is_premium |-> <<>>,
     is_featured |-> <<>>, audio_url |-> <<>>, file_size |-> <<>>,
     ringtone |-> <<>>]

\* Bodies of PUT /instrumentals/{id}: false and 0; a value and a null; a null
\* alone; no field; a ringtone alone.
UpdateBodies ==
    << [named |-> {"is_premium", "duration"},
        val |-> [NoFields EXCEPT !.is_premium = <<FALSE>>, !.duration = <<0>>]],
       [named |-> {"title", "audio_url"},
        val |-> [NoFields EXCEPT !.title = <<"b">>]],
       [named |-> {"audio_url"}, val |-> NoFields],
       [named |-> {}, val |-> NoFields],
       [named |-> {"ringtone"},
        val |-> [NoFields EXCEPT !.ringtone = <<"r2">>]] >>

\* The catalog alone, one handler: requests are handled one at a time; the
\* catalog is seeded before MaxItems ids are minted, or not at all.
CatalogNext ==
    \/ \E p \in {"h1"}, k \in 1..Len(CreateBodies) :
            minted < MaxItems /\ create_instrumental(p, CreateBodies[k])
    \/ \E p \in {"h1"}, id \in InstrumentalIds : get_instrumental(p, id)
    \/ \E p \in {"h1"}, id \in InstrumentalIds, k \in 1..Len(UpdateBodies) :
            update_instrumental_update_one(p, id, UpdateBodies[k])
    \/ \E p \in {"h1"} : update_instrumental_find_one(p)
    \/ \E p \in {"h1"}, id \in InstrumentalIds : delete_instrumental(p, id)
    \/ \E p \in {"h1"}, id \in InstrumentalIds, a \in AudioUrls, s \in FileSizes :
            update_audio_url(p, id, a, s)
    \/ \E p \in {"h1"} : minted < MaxItems /\ seed_database_delete_many(p)
    \/ \E p \in {"h1"} : seed_database_insert_one(p)

CatalogSpec == Init /\ [][CatalogNext]_vars

\* The mood, is_premium and search parameters of GET /instrumentals: absent,
\* empty ("?mood=") or a value; the searches are a letter in the other case
\* and a pattern with a wildcard.
MoodParams == {<<>>, <<"">>, <<"All">>, <<"Calm">>, <<"Drums">>, <<"Spiritual">>}
PremiumParams == {<<>>, <<TRUE>>, <<FALSE>>}
SearchParams == {<<>>, <<"">>, <<"A">>, <<"d.w">>}

\* The bodies the next create may carry while the catalog is filled: any at
\* first, then the second body at every tenth create and the first otherwise.
FillBodies ==
    IF minted < 2 THEN {1, 2} ELSE IF (minted + 1) % 10 = 0 THEN {2} ELSE {1}

\* The last request was a listing.
Listed == resp.op \in {"get_instrumentals", "get_featured_instrumentals"}

\* The catalog is seeded or not, filled past the caps of the listings, and
\* listed after any write (a listing changes nothing, so that a listing
\* after another one is answered as the same listing after the write).
ListNext ==
    \/ \E p \in {"h1"}, k \in FillBodies :
            minted < MaxCatalog /\ create_instrumental(p, CreateBodies[k])
    \/ \E p \in {"h1"} : minted < 2 /\ seed_database_delete_many(p)
    \/ \E p \in {"h1"} : seed_database_insert_one(p)
    \/ \E p \in {"h1"}, mood \in MoodParams, is_premium \in PremiumParams,
          search \in SearchParams :
            ~Listed /\ get_instrumentals(p, mood, is_premium, search)
    \/ \E p \in {"h1"} : ~Listed /\ get_featured_instrumentals(p)

ListSpec == Init /\ [][ListNext]_vars

\* Installations that register.
DeviceIds == {"devA", "devB"}

\* Registrations alone, handled concurrently.
RegNext ==
    \/ \E p \in Procs : Register(p, DeviceIds)
    \/ \E p \in Procs : create_or_get_user_insert(p)
    \/ \E t \in Instants : Tick(t)

RegSpec == Init /\ [][RegNext]_vars

\* The users that have no request in progress.
FreeUserIds == {u \in UserIds : \A q \in Procs : Idle(q) \/ data[q].user_id # u}

\* Two installations register, one at a time, and the subscription requests
\* of different registered users are handled concurrently.
TwoUserNext ==
    \/ \E p \in Procs : Quiet /\ Register(p, DeviceIds)
    \/ \E p \in Procs : ~Registering /\ Entitle(p, FreeUserIds)
    \/ \E p \in Procs : Continue(p)
    \/ \E t \in Instants : Tick(t)

TwoUserSpec == Init /\ [][TwoUserNext]_vars

\* A handler is in the middle of a request other than subscribe.
InOther ==
    \E q \in Procs : pc[q] \notin {"idle", "subscribe_insert", "subscribe_update_user"}

\* The subscribe calls of registered users overlap one another; every other
\* request runs with no request in progress beside it.
RaceNext ==
    \/ \E p \in Procs : Quiet /\ Register(p, {"devA"})
    \/ \E p \in Procs, u \in UserIds, pl \in Plans :
            ~InOther /\ subscribe_find(p, u, pl)
    \/ \E p \in Procs, u \in UserIds :
            Quiet /\ (\/ get_subscription_status_find(p, u)
                      \/ restore_purchase(p, u)
                      \/ cancel_subscription_update_many(p, u))
    \/ \E p \in Procs : Continue(p)
    \/ \E t \in Instants : Tick(t)

RaceSpec == Init /\ [][RaceNext]_vars

\* ===================================================================== claims
\* The user a subscription response answers, and the plan of its request.
RespUser(r) == r.key[1]
RespPlan(r) == r.key[2]

\* The active rows of user_id in a subscriptions collection.
ActiveRowsIn(subs, user_id) ==
    {i \in 1..Len(subs) : subs[i].user_id = user_id /\ subs[i].is_active}

\* A step in which a handler returns from op without having been suspended
\* (the request was answered from its first store call).
ReturnsAtOnce(op) == resp'.op = op /\ pc' = pc

\* C1 as the spec states it, taken at the states where no request is in
\* progress: a user's is_subscribed equals "the user has an active row whose
\* expires_at is not in the past".
C1_AsStated ==
    Quiet =>
        \A i \in 1..Len(users) :
            users[i].is_subscribed =
                (\E j \in ActiveRows(users[i].id) :
                    subscriptions[j].expires_at >= now)

\* C1, amended: when requests are handled one at a time and none is in
\* progress, a user's is_subscribed equals "the user has a row with
\* is_active = true", expired or not; so it equals "has an active row that is
\* not expired" whenever no active row of the user is past its expires_at.
C1_CacheMatchesActive ==
    Quiet =>
        \A i \in 1..Len(users) :
            /\ users[i].is_subscribed = (ActiveRows(users[i].id) # {})
            /\ (\A j \in ActiveRows(users[i].id) : subscriptions[j].expires_at >= now)
                => users[i].is_subscribed =
                    (\E j \in ActiveRows(users[i].id) :
                        subscriptions[j].expires_at >= now)

\* A user is still flagged subscribed although the only active row expired.
C1_Witness ==
    /\ Quiet
    /\ Len(users) = 1 /\ users[1].is_subscribed
    /\ ActiveRows(users[1].id) # {}
    /\ \A j \in ActiveRows(users[1].id) : subscriptions[j].expires_at < now

\* C2 as the spec states it: whenever a subscribe call returns, overlapping
\* or not, its user has at most one active row.
C2_AsStated ==
    [][resp'.op = "subscribe" =>
        Cardinality(ActiveRowsIn(subscriptions', RespUser(resp'))) <= 1]_vars

\* C2, amended: whenever a subscribe call returns, its user has at most one
\* active row, provided no two subscribe calls for that user have overlapped.
C2_AtMostOneActiveUnlessRaced ==
    [][(resp'.op = "subscribe" /\ RespUser(resp') \notin raced') =>
        Cardinality(ActiveRowsIn(subscriptions', RespUser(resp'))) <= 1]_vars

\* A subscribe call returned while another request was in progress, no two
\* subscribe calls of its user have overlapped, and the user has one active
\* row beside an inactive one.
C2_Witness ==
    /\ resp.op = "subscribe"
    /\ RespUser(resp) \notin raced
    /\ Cardinality(ActiveRows(RespUser(resp))) = 1
    /\ Len(subscriptions) = 2
    /\ \A i \in 1..2 : subscriptions[i].user_id = RespUser(resp)
    /\ \E p \in Procs : ~Idle(p)

\* C3: a subscribe call answered from its first store call returns a stored
\* active row of its user and changes no document; a subscribe call goes on to
\* insert only when its user has no active row; and a subscribe call that
\* returns right after another one for the same user returns the same id.
C3_IdempotentWhileActive ==
    [][/\ ReturnsAtOnce("subscribe") =>
            /\ Len(resp'.doc) = 1
            /\ \E i \in ActiveRows(RespUser(resp')) : subscriptions[i] = resp'.doc[1]
            /\ subscriptions' = subscriptions
            /\ users' = users
       /\ \A p \in Procs :
            (Idle(p) /\ pc'[p] = "subscribe_insert") =>
                ActiveRows(data'[p].user_id) = {}
       /\ (resp.op = "subscribe" /\ resp'.op = "subscribe"
            /\ RespUser(resp') = RespUser(resp)) =>
                resp'.doc[1].id = resp.doc[1].id]_vars

\* A yearly subscribe request was answered with the user's monthly row.
C3_Witness ==
    /\ resp.op = "subscribe"
    /\ RespPlan(resp) = "yearly"
    /\ resp.doc[1].plan = "monthly"
    /\ Len(subscriptions) = 1
    /\ subscriptions[1] = resp.doc[1]

\* users with is_subscribed of user_id set to v, as a claim states it.
WithFlag(us, user_id, v) ==
    [i \in 1..Len(us) |->
        IF us[i].id = user_id THEN [us[i] EXCEPT !.is_subscribed = v] ELSE us[i]]

\* C4: a subscribe call whose user has no active row builds a row with
\* user_id of the request, is_active = true, a non-null expires_at, price 53
\* and expires_at = now + 30 for monthly, price 499 and expires_at = now + 365
\* for yearly; it inserts exactly that row, under a new id, and then sets the
\* user's is_subscribed to true and returns the row.
C4_SubscribeCreates ==
    [][/\ ReturnsAtOnce("subscribe") => ActiveRows(RespUser(resp')) # {}
       /\ \A p \in Procs :
            /\ (Idle(p) /\ pc'[p] = "subscribe_insert") =>
                /\ ActiveRows(data'[p].user_id) = {}
                /\ sub'[p][1].user_id = data'[p].user_id
                /\ sub'[p][1].is_active
                /\ sub'[p][1].expires_at # Null
                /\ sub'[p][1].plan = data'[p].plan
                /\ data'[p].plan = "monthly" =>
                    sub'[p][1].price = 53 /\ sub'[p][1].expires_at = now + 30
                /\ data'[p].plan = "yearly" =>
                    sub'[p][1].price = 499 /\ sub'[p][1].expires_at = now + 365
                /\ subscriptions' = subscriptions
                /\ users' = users
            /\ (pc[p] = "subscribe_insert" /\ pc'[p] # "subscribe_insert") =>
                /\ pc'[p] = "subscribe_update_user"
                /\ subscriptions' = Append(subscriptions, sub[p][1])
                /\ \A i \in 1..Len(subscriptions) :
                        subscriptions[i].id # sub[p][1].id
                /\ users' = users
            /\ (pc[p] = "subscribe_update_user" /\ pc'[p] # "subscribe_update_user") =>
                /\ users' = WithFlag(users, data[p].user_id, TRUE)
                /\ subscriptions' = subscriptions
                /\ resp'.op = "subscribe"
                /\ resp'.doc = sub[p]]_vars

\* A yearly subscribe call returned the row it created and the user is
\* flagged.
C4_Witness ==
    /\ resp.op = "subscribe"
    /\ RespPlan(resp) = "yearly"
    /\ resp.doc[1].price = 499
    /\ resp.doc[1].expires_at = resp.doc[1].subscribed_at + 365
    /\ \E i \in 1..Len(subscriptions) : subscriptions[i] = resp.doc[1]
    /\ \E i \in 1..Len(users) :
            users[i].id = RespUser(resp) /\ users[i].is_subscribed

\* C5: right after a monthly subscribe call has returned a monthly row whose
\* expires_at is still ahead, a status check of the same user does not find
\* the row expired: it returns is_subscribed = true with that very row, plan
\* monthly, price 53.
C5_SubscribeThenStatus ==
    [][(/\ resp.op = "subscribe"
        /\ RespPlan(resp) = "monthly"
        /\ resp.doc[1].plan = "monthly"
        /\ resp.doc[1].expires_at > now) =>
            /\ (resp'.op = "get_subscription_status"
                    /\ RespUser(resp') = RespUser(resp)) =>
                /\ resp'.flag
                /\ resp'.doc = resp.doc
                /\ resp'.doc[1].plan = "monthly"
                /\ resp'.doc[1].price = 53
                /\ resp'.doc[1].expires_at = resp'.doc[1].subscribed_at + 30
            /\ \A p \in Procs :
                (Idle(p) /\ pc'[p] = "get_subscription_status_expire") =>
                    data'[p].user_id # RespUser(resp)]_vars

\* A status check returned the monthly row bought at this very instant, the
\* only row there is.
C5_Witness ==
    /\ resp.op = "get_subscription_status"
    /\ resp.flag
    /\ resp.doc[1].plan = "monthly"
    /\ resp.doc[1].price = 53
    /\ resp.doc[1].subscribed_at = now
    /\ subscriptions = resp.doc

\* C6: a subscribe call with a plan other than monthly and yearly builds and
\* inserts a row with price 53 and expires_at = now + 30, and returns it.
C6_UnknownPlanIsMonthly ==
    [][\A p \in Procs :
        /\ (/\ Idle(p) /\ pc'[p] = "subscribe_insert"
            /\ data'[p].plan \notin {"monthly", "yearly"}) =>
                /\ sub'[p][1].price = 53
                /\ sub'[p][1].expires_at = now + 30
        /\ (/\ pc[p] = "subscribe_insert" /\ pc'[p] # "subscribe_insert"
            /\ data[p].plan \notin {"monthly", "yearly"}) =>
                /\ Len(subscriptions') = Len(subscriptions) + 1
                /\ subscriptions'[Len(subscriptions')].price = 53
                /\ subscriptions'[Len(subscriptions')].expires_at =
                        subscriptions'[Len(subscriptions')].subscribed_at + 30
        /\ (/\ pc[p] = "subscribe_update_user" /\ pc'[p] # "subscribe_update_user"
            /\ data[p].plan \notin {"monthly", "yearly"}) =>
                /\ resp'.op = "subscribe"
                /\ Len(resp'.doc) = 1
                /\ resp'.doc[1].price = 53
                /\ resp'.doc[1].expires_at = resp'.doc[1].subscribed_at + 30]_vars

\* A subscribe call with plan "weekly" returned a stored row priced 53.
C6_Witness ==
    /\ resp.op = "subscribe"
    /\ RespPlan(resp) = "weekly"
    /\ resp.doc[1].price = 53
    /\ resp.doc[1].expires_at = resp.doc[1].subscribed_at + 30
    /\ \E i \in 1..Len(subscriptions) : subscriptions[i] = resp.doc[1]

\* C7: the plan of every stored Subscription row is monthly or yearly.
C7_PlanIsMonthlyOrYearly ==
    \A i \in 1..Len(subscriptions) :
        subscriptions[i].plan \in {"monthly", "yearly"}

\* C8: a status check of a user with no active row returns at once,
\* {is_subscribed: false, subscription: null}, and a status check that returns
\* at once changes no Subscription and no User document.
C8_StatusWithoutActiveRow ==
    [][/\ \A p \in Procs :
            (Idle(p) /\ pc'[p] = "get_subscription_status_expire") =>
                ActiveRows(data'[p].user_id) # {}
       /\ ReturnsAtOnce("get_subscription_status") =>
            /\ subscriptions' = subscriptions
            /\ users' = users
            /\ ActiveRows(RespUser(resp')) = {} =>
                (~resp'.flag /\ resp'.doc = <<>>)]_vars

\* A status check of a user id with no Subscription history, and no User
\* document, returned {false, null}.
C8_Witness ==
    /\ resp.op = "get_subscription_status"
    /\ RespUser(resp) = UnknownUserId
    /\ ~resp.flag
    /\ resp.doc = <<>>
    /\ subscriptions = <<>>

\* subs with is_active of the row of this id set to false, as a claim
\* states it.
WithInactive(subs, id) ==
    [i \in 1..Len(subs) |->
        IF subs[i].id = id THEN [subs[i] EXCEPT !.is_active = FALSE] ELSE subs[i]]

\* C9: a status check goes on to expire a row only when it found an active
\* row of its user whose expires_at is in the past; it then sets that row's
\* is_active to false (and nothing else), then the user's is_subscribed to
\* false, and returns {false, null}.  A status check that found a row not
\* expired returns {true, that row} and changes no document.
C9_LazyExpiry ==
    [][/\ \A p \in Procs :
            /\ (Idle(p) /\ pc'[p] = "get_subscription_status_expire") =>
                /\ \E i \in ActiveRows(data'[p].user_id) :
                        subscriptions[i] = sub'[p][1]
                /\ sub'[p][1].expires_at < now
                /\ subscriptions' = subscriptions
                /\ users' = users
            /\ (/\ pc[p] = "get_subscription_status_expire"
                /\ pc'[p] # "get_subscription_status_expire") =>
                /\ pc'[p] = "get_subscription_status_update_user"
                /\ subscriptions' = WithInactive(subscriptions, sub[p][1].id)
                /\ users' = users
            /\ (/\ pc[p] = "get_subscription_status_update_user"
                /\ pc'[p] # "get_subscription_status_update_user") =>
                /\ users' = WithFlag(users, data[p].user_id, FALSE)
                /\ subscriptions' = subscriptions
                /\ resp' = Response("get_subscription_status",
                                    <<data[p].user_id>>, FALSE, <<>>)
       /\ ReturnsAtOnce("get_subscription_status") =>
            /\ subscriptions' = subscriptions
            /\ users' = users
            /\ IF resp'.flag
               THEN /\ Len(resp'.doc) = 1
                    /\ \E i \in ActiveRows(RespUser(resp')) :
                            subscriptions[i] = resp'.doc[1]
                    /\ ~(resp'.doc[1].expires_at < now)
               ELSE /\ resp'.doc = <<>>
                    /\ ActiveRows(RespUser(resp')) = {}]_vars

\* A status check has set an expired row inactive and has not yet cleared
\* the user's flag.
C9_Witness ==
    \E p \in Procs :
        /\ pc[p] = "get_subscription_status_update_user"
        /\ \E i \in 1..Len(subscriptions) :
            /\ subscriptions[i].id = sub[p][1].id
            /\ ~subscriptions[i].is_active
            /\ subscriptions[i].expires_at < now
        /\ \E i \in 1..Len(users) :
            users[i].id = data[p].user_id /\ users[i].is_subscribed

\* C10: a status check answers is_subscribed = true only with a row that is
\* active and whose expires_at is set and strictly later than the time of
\* the check.
C10_SubscribedOnlyStrictlyBeforeExpiry ==
    (resp.op = "get_subscription_status" /\ resp.flag) =>
        /\ Len(resp.doc) = 1
        /\ resp.doc[1].is_active
        /\ resp.doc[1].expires_at # Null
        /\ resp.doc[1].expires_at > now

\* C11: a stored row goes from is_active = true to false only in the step of
\* a status check of the row's user that found this row expired, or in the
\* bulk update of a cancel of the row's user; the passage of time, subscribe
\* and restore steps, and the steps of requests of other users leave the
\* is_active of every stored row as it is.
C11_ExpiryOnlyByStatusOrCancel ==
    [][/\ \A i \in 1..Len(subscriptions) :
            (subscriptions[i].is_active /\ ~subscriptions'[i].is_active) =>
                \E p \in Procs :
                    \/ /\ pc[p] = "get_subscription_status_expire"
                       /\ pc'[p] = "get_subscription_status_update_user"
                       /\ data[p].user_id = subscriptions[i].user_id
                       /\ sub[p][1].id = subscriptions[i].id
                       /\ subscriptions[i].expires_at < now
                    \/ /\ Idle(p)
                       /\ pc'[p] = "cancel_subscription_update_user"
                       /\ data'[p].user_id = subscriptions[i].user_id
       /\ (\/ now' # now
           \/ resp'.op \in {"subscribe", "restore_purchase"}
           \/ \E p \in Procs : pc'[p] \in {"subscribe_insert", "subscribe_update_user"}
                                /\ pc'[p] # pc[p]) =>
            \A i \in 1..Len(subscriptions) :
                subscriptions'[i].is_active = subscriptions[i].is_active]_vars

\* A cancel of one user has returned, and the row of another user, expired,
\* is still active.
C11_Witness ==
    /\ resp.op = "cancel_subscription"
    /\ resp.flag
    /\ \E i \in 1..Len(subscriptions) :
            subscriptions[i].user_id = RespUser(resp) /\ ~subscriptions[i].is_active
    /\ \E i \in 1..Len(subscriptions) :
            /\ subscriptions[i].user_id # RespUser(resp)
            /\ subscriptions[i].is_active
            /\ subscriptions[i].expires_at < now

\* C12: a restore returns at once and changes no Subscription and no User
\* document; it returns {restored: true, subscription: row} with a stored
\* active row of its user whenever the user has one, expired or not, and
\* {restored: false, subscription: null}, a body whose subscription key is
\* present and null, otherwise; so it does right after a status check of the
\* same user has answered is_subscribed = false.
C12_RestoreIsPureRead ==
    [][resp'.op = "restore_purchase" =>
        /\ pc' = pc
        /\ subscriptions' = subscriptions
        /\ users' = users
        /\ resp'.status = 200
        /\ resp'.flag = (ActiveRows(RespUser(resp')) # {})
        /\ resp'.has_doc
        /\ IF resp'.flag
           THEN /\ Len(resp'.doc) = 1
                /\ \E i \in ActiveRows(RespUser(resp')) :
                        subscriptions[i] = resp'.doc[1]
           ELSE resp'.doc = <<>>
        /\ (/\ resp.op = "get_subscription_status"
            /\ ~resp.flag
            /\ RespUser(resp) = RespUser(resp')) =>
                resp' = Response("restore_purchase", resp'.key, FALSE, <<>>)]_vars

\* subs with is_active of every row of user_id set to false, as a claim
\* states it.
WithAllInactive(subs, user_id) ==
    [i \in 1..Len(subs) |->
        IF subs[i].user_id = user_id
        THEN [subs[i] EXCEPT !.is_active = FALSE] ELSE subs[i]]

\* C13: a cancel that runs with no other request in progress first sets
\* is_active = false on every row of its user, however many were active, and
\* nothing else; then sets the user's is_subscribed to false and returns; the
\* user then has no active row and is not flagged, and a status check of
\* that user that comes next returns {false, null} without finding a row to
\* expire.
C13_CancelDeactivatesAll ==
    [][\A p \in Procs :
        /\ (Quiet /\ pc'[p] = "cancel_subscription_update_user") =>
            /\ subscriptions' = WithAllInactive(subscriptions, data'[p].user_id)
            /\ ActiveRowsIn(subscriptions', data'[p].user_id) = {}
            /\ users' = users
        /\ (pc[p] = "cancel_subscription_update_user" /\ Idle(p)') =>
            /\ users' = WithFlag(users, data[p].user_id, FALSE)
            /\ subscriptions' = subscriptions
            /\ resp'.op = "cancel_subscription"
            /\ RespUser(resp') = data[p].user_id
            /\ ActiveRowsIn(subscriptions', data[p].user_id) = {}
            /\ \A i \in 1..Len(users') :
                    users'[i].id = data[p].user_id => ~users'[i].is_subscribed
        /\ resp.op = "cancel_subscription" =>
            /\ (resp'.op = "get_subscription_status"
                    /\ RespUser(resp') = RespUser(resp)) =>
                (~resp'.flag /\ resp'.doc = <<>>)
            /\ pc'[p] = "get_subscription_status_expire" =>
                data'[p].user_id # RespUser(resp)]_vars

\* A cancel has set two rows of its user inactive, the user has no active row
\* left and is still flagged.
C13_Witness ==
    \E p \in Procs :
        /\ pc[p] = "cancel_subscription_update_user"
        /\ result[p] = 2
        /\ ActiveRows(data[p].user_id) = {}
        /\ Cardinality(RowsOfUser(data[p].user_id)) = 2
        /\ \E i \in 1..Len(users) :
                users[i].id = data[p].user_id /\ users[i].is_subscribed

\* C14: the bulk update of a cancel modifies at least one row exactly when
\* its user had a row with is_active = true at that moment; the cancel keeps
\* that count until it returns, and returns cancelled = true exactly when the
\* count is positive; a cancel always ends with a cancel response.
C14_CancelledIffModified ==
    [][\A p \in Procs :
        /\ (Idle(p) /\ pc'[p] = "cancel_subscription_update_user") =>
            /\ (result'[p] > 0) =
                    (\E i \in 1..Len(subscriptions) :
                        /\ subscriptions[i].user_id = data'[p].user_id
                        /\ subscriptions[i].is_active)
            /\ (result'[p] > 0) = (subscriptions' # subscriptions)
            /\ result'[p] =
                    Cardinality({i \in 1..Len(subscriptions) :
                        subscriptions'[i] # subscriptions[i]})
        /\ (pc[p] = "cancel_subscription_update_user"
                /\ pc'[p] = "cancel_subscription_update_user") =>
            (result'[p] = result[p] /\ data'[p] = data[p])
        /\ (pc[p] = "cancel_subscription_update_user"
                /\ pc'[p] # "cancel_subscription_update_user") =>
            /\ Idle(p)'
            /\ resp'.op = "cancel_subscription"
            /\ RespUser(resp') = data[p].user_id
            /\ resp'.flag = (result[p] > 0)]_vars

\* A cancel has returned cancelled = true, and the rows of its user, one at
\* least, are all inactive.
C14_Witness ==
    /\ resp.op = "cancel_subscription"
    /\ resp.flag
    /\ RowsOfUser(RespUser(resp)) # {}
    /\ ActiveRows(RespUser(resp)) = {}

\* C15 as the spec states it: a cancel whose user had no active row leaves
\* every Subscription and every User document, the user's is_subscribed
\* included, exactly as it was.
C15_AsStated ==
    [][\A p \in Procs :
        /\ (Idle(p) /\ pc'[p] = "cancel_subscription_update_user"
                /\ ActiveRows(data'[p].user_id) = {}) =>
            (subscriptions' = subscriptions /\ users' = users)
        /\ (pc[p] = "cancel_subscription_update_user"
                /\ resp'.op = "cancel_subscription" /\ result[p] = 0) =>
            (subscriptions' = subscriptions /\ users' = users)]_vars

\* C15, amended: a cancel whose user had no active row returns cancelled =
\* false, changes no Subscription document, and changes no User document
\* except that it sets the user's is_subscribed to false: it changes nothing
\* at all when the flag was false already (or the user has no document).  A
\* cancel of the same user that comes right after a cancel has returned, with
\* requests handled one at a time, changes nothing.
C15_CancelNoOpButFlag ==
    [][\A p \in Procs :
        /\ (Idle(p) /\ pc'[p] = "cancel_subscription_update_user"
                /\ ActiveRows(data'[p].user_id) = {}) =>
            /\ subscriptions' = subscriptions
            /\ users' = users
            /\ result'[p] = 0
        /\ (pc[p] = "cancel_subscription_update_user"
                /\ resp'.op = "cancel_subscription" /\ result[p] = 0) =>
            /\ subscriptions' = subscriptions
            /\ users' = WithFlag(users, data[p].user_id, FALSE)
            /\ (\A i \in 1..Len(users) :
                    users[i].id = data[p].user_id => ~users[i].is_subscribed)
                => users' = users
            /\ resp' = Message("cancel_subscription", <<data[p].user_id>>,
                               FALSE)
        /\ (resp.op = "cancel_subscription"
                /\ Idle(p) /\ pc'[p] = "cancel_subscription_update_user"
                /\ data'[p].user_id = RespUser(resp)) =>
            /\ subscriptions' = subscriptions
            /\ result'[p] = 0
            /\ \A i \in 1..Len(users) :
                    users[i].id = RespUser(resp) => ~users[i].is_subscribed]_vars

\* A cancel has found no active row of its user, who has an inactive row and
\* is still flagged: the flag is what it is about to change.
C15_Witness ==
    \E p \in Procs :
        /\ pc[p] = "cancel_subscription_update_user"
        /\ result[p] = 0
        /\ RowsOfUser(data[p].user_id) # {}
        /\ ActiveRows(data[p].user_id) = {}
        /\ \E i \in 1..Len(users) :
                users[i].id = data[p].user_id /\ users[i].is_subscribed

\* C16: no step removes a stored Subscription row or changes anything of it
\* but is_active; a row with is_active = false keeps it in every later
\* state; a row a subscribe inserts is appended under an id no stored row
\* carries, whatever inactive rows its user has.
C16_OneWayAndRetained ==
    [][/\ Len(subscriptions') >= Len(subscriptions)
       /\ Len(subscriptions') <= Len(subscriptions) + 1
       /\ \A i \in 1..Len(subscriptions) :
            /\ subscriptions'[i] =
                    [subscriptions[i] EXCEPT !.is_active = subscriptions'[i].is_active]
            /\ ~subscriptions[i].is_active => ~subscriptions'[i].is_active
       /\ Len(subscriptions') = Len(subscriptions) + 1 =>
            /\ \A i \in 1..Len(subscriptions) :
                    subscriptions[i].id # subscriptions'[Len(subscriptions')].id
            /\ subscriptions'[Len(subscriptions')].is_active
            /\ \E p \in Procs :
                    /\ pc[p] = "subscribe_insert"
                    /\ pc'[p] = "subscribe_update_user"
                    /\ subscriptions'[Len(subscriptions')] = sub[p][1]]_vars

\* A subscribe has returned a new active row to a user whose earlier row,
\* under another id, stays inactive.
C16_Witness ==
    /\ resp.op = "subscribe"
    /\ Len(subscriptions) = 2
    /\ subscriptions[2] = resp.doc[1]
    /\ subscriptions[2].is_active
    /\ ~subscriptions[1].is_active
    /\ subscriptions[1].user_id = subscriptions[2].user_id
    /\ subscriptions[1].id # subscriptions[2].id

\* C17: where the subscribe calls of a user overlap, every call that found no
\* active row inserts one row and no call inserts more, so that a user never
\* has more active rows than there are handlers, fewer than the collection
\* may hold, and has at least one when a subscribe call returns; a cancel
\* that starts when they have all returned leaves, from its bulk update on,
\* no active row of the user, and counts the rows it set inactive.
C17_RaceThenCancel ==
    [][/\ resp'.op = "subscribe" =>
            Cardinality(ActiveRowsIn(subscriptions', RespUser(resp'))) >= 1
       /\ \A u \in UserIds :
            Cardinality(ActiveRowsIn(subscriptions', u)) <= Cardinality(Procs)
       /\ \A p \in Procs :
            /\ (pc[p] = "subscribe_insert" /\ pc'[p] # "subscribe_insert") =>
                Cardinality(ActiveRowsIn(subscriptions', data[p].user_id)) =
                    Cardinality(ActiveRows(data[p].user_id)) + 1
            /\ (Quiet /\ pc'[p] = "cancel_subscription_update_user") =>
                /\ ActiveRowsIn(subscriptions', data'[p].user_id) = {}
                /\ result'[p] = Cardinality(ActiveRows(data'[p].user_id))
            /\ (pc[p] = "cancel_subscription_update_user"
                    /\ resp'.op = "cancel_subscription") =>
                ActiveRowsIn(subscriptions', data[p].user_id) = {}]_vars

\* Two subscribe calls of a user have overlapped and have both inserted,
\* with room in the collection for a third row, and a cancel that started
\* after both returned has set both rows inactive.
C17_Witness ==
    \E p \in Procs :
        /\ pc[p] = "cancel_subscription_update_user"
        /\ data[p].user_id \in raced
        /\ result[p] = 2
        /\ Len(subscriptions) < MaxRaceSubs
        /\ Cardinality(Procs) < MaxRaceSubs
        /\ \A q \in Procs \ {p} : Idle(q)
        /\ ActiveRows(data[p].user_id) = {}

\* C18: a user's is_subscribed goes from false to true only in the flag
\* update of a subscribe call of that user, and the row that call built is
\* stored by then; the insert step leaves the users alone.  When the process
\* dies between the two writes, the row stays stored and active and the flag
\* stays as it was, false if it was false.  So a user flagged subscribed
\* always has a stored row.
C18_InsertBeforeCache ==
    [][/\ \A i \in 1..Len(users) :
            (~users[i].is_subscribed /\ users'[i].is_subscribed) =>
                \E p \in Procs :
                    /\ pc[p] = "subscribe_update_user"
                    /\ resp'.op = "subscribe"
                    /\ data[p].user_id = users[i].id
                    /\ \E j \in 1..Len(subscriptions) :
                            subscriptions[j] = sub[p][1]
       /\ \A p \in Procs :
            /\ (pc[p] = "subscribe_insert" /\ pc'[p] = "subscribe_update_user") =>
                /\ users' = users
                /\ \E j \in 1..Len(subscriptions') : subscriptions'[j] = sub[p][1]
            /\ (pc[p] = "subscribe_update_user" /\ resp'.op = "crash") =>
                /\ users' = users
                /\ subscriptions' = subscriptions
                /\ \E j \in ActiveRowsIn(subscriptions', data[p].user_id) :
                        subscriptions'[j] = sub[p][1]
       /\ \A i \in 1..Len(users') :
            users'[i].is_subscribed =>
                \E j \in 1..Len(subscriptions') :
                    subscriptions'[j].user_id = users'[i].id]_vars

\* The process died between the two writes of a subscribe: the row is stored
\* and active and the user is not flagged.
C18_Witness ==
    /\ resp.op = "crash"
    /\ Len(subscriptions) = 1
    /\ subscriptions[1].user_id = RespUser(resp)
    /\ subscriptions[1].is_active
    /\ \E i \in 1..Len(users) :
            users[i].id = RespUser(resp) /\ ~users[i].is_subscribed

\* The awaits that lie between the two writes of subscribe, of the status
\* check and of cancel.
BetweenWrites ==
    {"subscribe_update_user", "get_subscription_status_update_user",
     "cancel_subscription_update_user"}

\* C19, for the status check that follows the crash at once: when the
\* process has died between the two writes of a subscribe, a status check or
\* a cancel of user u, and the next request is a status check of u that runs
\* to completion, then u's is_subscribed equals "u has a row with
\* is_active = true".
C19_RecoveryOnNextStatus ==
    [][(/\ resp.op = "crash"
        /\ resp.key[2] \in BetweenWrites
        /\ resp'.op = "get_subscription_status"
        /\ RespUser(resp') = RespUser(resp)) =>
            \A i \in 1..Len(users') :
                users'[i].id = RespUser(resp) =>
                    users'[i].is_subscribed =
                        (ActiveRowsIn(subscriptions', RespUser(resp)) # {})]_vars

\* The operations that read or end a user's entitlement.
ReadOrCancel ==
    {"get_subscription_status", "restore_purchase", "cancel_subscription"}

\* No User document carries this id.
NoUserRecord(us, user_id) == \A i \in 1..Len(us) : us[i].id # user_id

\* C20 as the spec states it: for a user id with no User document, a status
\* check, a restore and a cancel do not fail; they answer false and return
\* no subscription, and create no User and no Subscription document.
C20_AsStated ==
    [][(resp'.op \in ReadOrCancel /\ NoUserRecord(users, RespUser(resp'))) =>
        /\ resp'.status = 200
        /\ ~resp'.flag
        /\ resp'.doc = <<>>
        /\ Len(users') = Len(users)
        /\ Len(subscriptions') = Len(subscriptions)]_vars

\* C20, amended: for a user id with no User document, no step of a status
\* check, a restore or a cancel changes the users or adds a Subscription
\* row, and each answers with status 200, never with an error; whenever the
\* user id has no row with is_active = true (subscribe checks for no User
\* document either, so it may have one), a status check answers
\* {is_subscribed: false, subscription: null}, a restore {restored: false}
\* and a message, with no subscription key, and a cancel {cancelled: false}
\* and a message.
C20_UnknownUserNeverFails ==
    [][/\ (resp'.op \in ReadOrCancel /\ NoUserRecord(users, RespUser(resp'))) =>
            /\ resp'.status = 200
            /\ users' = users
            /\ Len(subscriptions') = Len(subscriptions)
       /\ \A p \in Procs :
            /\ (pc'[p] # pc[p] /\ NoUserRecord(users, data[p].user_id)
                    /\ pc[p] \in {"get_subscription_status_expire",
                                  "get_subscription_status_update_user",
                                  "cancel_subscription_update_user"}) =>
                /\ users' = users
                /\ Len(subscriptions') = Len(subscriptions)
                /\ pc'[p] = "idle" =>
                        /\ resp'.op \in ReadOrCancel
                        /\ resp'.key = <<data[p].user_id>>
                        /\ resp'.status = 200
            /\ (Idle(p) /\ NoUserRecord(users, data'[p].user_id)
                    /\ pc'[p] = "cancel_subscription_update_user") =>
                /\ users' = users
                /\ Len(subscriptions') = Len(subscriptions)
                /\ ActiveRows(data'[p].user_id) = {} => result'[p] = 0
            /\ (NoUserRecord(users, data[p].user_id)
                    /\ pc[p] = "cancel_subscription_update_user"
                    /\ pc'[p] = "idle"
                    /\ result[p] = 0) =>
                resp' = Message("cancel_subscription", <<data[p].user_id>>, FALSE)
       /\ \A u \in UserIdInputs :
            (/\ NoUserRecord(users, u) /\ ActiveRows(u) = {}
             /\ resp'.op \in {"get_subscription_status", "restore_purchase"}
             /\ resp'.key = <<u>>) =>
                /\ users' = users
                /\ subscriptions' = subscriptions
                /\ resp'.op = "get_subscription_status" =>
                        resp' = Response("get_subscription_status", <<u>>,
                                         FALSE, <<>>)
                /\ resp'.op = "restore_purchase" =>
                        resp' = Message("restore_purchase", <<u>>, FALSE)]_vars

\* A cancel of a user id that no User document carries and that has no
\* Subscription row has answered cancelled = false beside a registered user.
C20_Witness ==
    /\ resp = Message("cancel_subscription", <<UnknownUserId>>, FALSE)
    /\ NoUserRecord(users, RespUser(resp))
    /\ RowsOfUser(RespUser(resp)) = {}
    /\ Len(users) = 1

\* C21: a registration that finds a user of its device returns that stored
\* user and writes nothing; one that finds none inserts one user, not
\* subscribed, of that device; and at most one stored user carries a given
\* device_id, also after registrations of the same device have overlapped.
C21_GetOrCreateKeepsDeviceUnique ==
    [][/\ ReturnsAtOnce("create_or_get_user") =>
            /\ users' = users
            /\ \E i \in 1..Len(users) :
                    users[i] = resp'.doc[1] /\ users[i].device_id = resp'.key[1]
       /\ \A p \in Procs :
            (pc[p] = "create_or_get_user_insert" /\ Idle(p)') =>
                /\ users' = Append(users, resp'.doc[1])
                /\ ~resp'.doc[1].is_subscribed
                /\ resp'.doc[1].device_id = resp'.key[1]
       /\ \A i, j \in 1..Len(users') :
            users'[i].device_id = users'[j].device_id => i = j]_vars

\* --------------------------------------------------------------------- C22
\* The value of a stored field as an Optional value.
Stored(item, f) == IF f = "audio_url" THEN item.audio_url ELSE <<item[f]>>

\* The update of handler p has just written the document of its id.
Updating(p) == pc[p] = "idle" /\ pc'[p] = "update_instrumental_find_one"

\* A get answers right after a successful update of the same id.
GetAfterUpdate ==
    /\ resp.op = "update_instrumental" /\ resp.status = 200
    /\ resp'.op = "get_instrumental" /\ resp'.key = <<resp.key[1]>>

\* C22 (amended): after update(id, patch) succeeds on an existing item, an
\* immediate get(id) returns what the update returned, the stored item: every
\* field the patch names with a value other than null holds exactly that
\* value (false and 0 included), and every other field, one the patch names
\* with null included, holds its previous value.
C22_UpdateRoundTrip ==
    [][ /\ \A p \in Procs : Updating(p) =>
              /\ Len(instrumentals') = Len(instrumentals)
              /\ \A i \in 1..Len(instrumentals) :
                    IF i = FirstOf(ItemsOfId(data'[p].instrumental_id))
                    THEN /\ instrumentals'[i].id = instrumentals[i].id
                         /\ \A f \in UpdateFields :
                              IF f \in sub'[p][1].named /\ sub'[p][1].val[f] # <<>>
                              THEN Stored(instrumentals'[i], f) = sub'[p][1].val[f]
                              ELSE instrumentals'[i][f] = instrumentals[i][f]
                    ELSE instrumentals'[i] = instrumentals[i]
        /\ resp'.op = "update_instrumental" /\ resp'.status = 200 =>
              /\ instrumentals' = instrumentals
              /\ \E i \in 1..Len(instrumentals) :
                    /\ instrumentals[i].id = resp'.key[1]
                    /\ resp'.doc = <<instrumentals[i]>>
              /\ \A f \in UpdateFields :
                    f \in resp'.key[2].named /\ resp'.key[2].val[f] # <<>> =>
                        Stored(resp'.doc[1], f) = resp'.key[2].val[f]
        /\ GetAfterUpdate => resp'.status = 200 /\ resp'.doc = resp.doc
      ]_vars

\* A get has returned an item that was created premium with duration 180 and
\* then updated with is_premium = false and duration = 0.
C22_Witness ==
    /\ resp.op = "get_instrumental" /\ resp.status = 200
    /\ \E i \in 1..Len(instrumentals) :
          /\ resp.doc = <<instrumentals[i]>>
          /\ instrumentals[i].title = "a"
          /\ instrumentals[i].is_premium = FALSE
          /\ instrumentals[i].duration = 0

\* C22 as stated: the get after a successful update returns every field named
\* in the patch with the value of the patch, null included.
C22_AsStated ==
    [][ GetAfterUpdate =>
            \A f \in UpdateFields \cap resp.key[2].named :
                Stored(resp'.doc[1], f) = resp.key[2].val[f]
      ]_vars

\* --------------------------------------------------------------------- C23
\* The catalog requests that name an id.
ById == {"get_instrumental", "update_instrumental", "delete_instrumental"}

\* The answer names an id that is not in the catalog (for an update: with a
\* patch that sets a field).
UnknownId ==
    /\ resp'.op \in ById
    /\ ItemsOfId(resp'.key[1]) = {}
    /\ resp'.op = "update_instrumental" =>
            update_data(InstrumentalUpdate(resp'.key[2])) # {}

\* C23: an update whose patch sets no field is rejected with a validation
\* error (400); get, update with a patch that sets a field, and delete on an
\* id that is not in the catalog answer not-found (404); an answer of either
\* kind leaves every Instrumental record as it was, none created, modified
\* or deleted; and a get of an id right after its successful delete answers
\* not-found.
C23_CatalogErrorsChangeNothing ==
    [][ /\ (/\ resp'.op = "update_instrumental"
             /\ update_data(InstrumentalUpdate(resp'.key[2])) = {})
                => resp'.status = 400
        /\ UnknownId => resp'.status = 404
        /\ resp'.op \in ById /\ resp'.status \in {400, 404}
                => instrumentals' = instrumentals /\ minted' = minted
        /\ (/\ resp.op = "delete_instrumental" /\ resp.status = 200
             /\ resp'.op = "get_instrumental" /\ resp'.key = resp.key)
                => resp'.status = 404 /\ ItemsOfId(resp.key[1]) = {}
      ]_vars

\* A get has answered not-found for an id that was created and deleted while
\* another item stays in the catalog.
C23_Witness ==
    /\ resp.op = "get_instrumental" /\ resp.status = 404
    /\ resp.key[1] >= 1 /\ resp.key[1] <= minted
    /\ minted <= MaxItems
    /\ instrumentals # <<>>

\* --------------------------------------------------------------------- C24
\* The document d carries a ringtone field of value v.
HasRingtone(d, v) == "ringtone" \in DOMAIN d /\ d["ringtone"] = v

\* C24: a create whose body has a ringtone answers with an id and that
\* ringtone; the get of that id right after answers with the ringtone field;
\* and an update of a stored id with {ringtone: v} succeeds and answers with
\* ringtone = v.
C24_RingtoneIsKept ==
    [][ /\ (resp'.op = "create_instrumental" /\ resp'.key[1].ringtone # <<>>)
                => /\ resp'.status = 200
                   /\ "id" \in DOMAIN resp'.doc[1]
                   /\ HasRingtone(resp'.doc[1], resp'.key[1].ringtone[1])
        /\ (/\ resp.op = "create_instrumental" /\ resp.key[1].ringtone # <<>>
             /\ resp'.op = "get_instrumental" /\ resp'.key = <<resp.doc[1].id>>)
                => /\ resp'.status = 200
                   /\ "ringtone" \in DOMAIN resp'.doc[1]
        /\ (/\ resp'.op = "update_instrumental"
             /\ resp'.key[2].named = {"ringtone"}
             /\ resp'.key[2].val.ringtone # <<>>
             /\ ItemsOfId(resp'.key[1]) # {})
                => /\ resp'.status = 200
                   /\ HasRingtone(resp'.doc[1], resp'.key[2].val.ringtone[1])
      ]_vars

\* --------------------------------------------------------------------- C25
\* The document d is in the catalog.
IsStored(d) == \E i \in 1..Len(instrumentals) : instrumentals[i] = d

\* C25 as the spec states it: a listing with is_premium = p answers only
\* items whose is_premium is p, one with mood = m, m not "All", only items
\* of that mood; a featured listing answers only featured items; every item
\* answered is stored; and the answer has at most 100 items, 10 for the
\* featured listing.
C25_AsStated ==
    /\ resp.op = "get_instrumentals" =>
          /\ Len(resp.doc) <= ListCap
          /\ \A i \in 1..Len(resp.doc) :
                /\ IsStored(resp.doc[i])
                /\ resp.key[2] # <<>> => resp.doc[i].is_premium = resp.key[2][1]
                /\ resp.key[1] # <<>> /\ resp.key[1] # <<"All">>
                        => resp.doc[i].mood = resp.key[1][1]
    /\ resp.op = "get_featured_instrumentals" =>
          /\ Len(resp.doc) <= FeaturedCap
          /\ \A i \in 1..Len(resp.doc) :
                IsStored(resp.doc[i]) /\ resp.doc[i].is_featured

\* C25, amended: the same, for a mood m that is neither empty nor "All": a
\* listing with an empty mood is not filtered by mood.
C25_ListFiltersAndCaps ==
    /\ resp.op = "get_instrumentals" =>
          /\ Len(resp.doc) <= ListCap
          /\ \A i \in 1..Len(resp.doc) :
                /\ IsStored(resp.doc[i])
                /\ resp.key[2] # <<>> => resp.doc[i].is_premium = resp.key[2][1]
                /\ resp.key[1] \notin {<<>>, <<"">>, <<"All">>}
                        => resp.doc[i].mood = resp.key[1][1]
    /\ resp.op = "get_featured_instrumentals" =>
          /\ Len(resp.doc) <= FeaturedCap
          /\ \A i \in 1..Len(resp.doc) :
                IsStored(resp.doc[i]) /\ resp.doc[i].is_featured

\* A listing with is_premium = true, mood = "Calm" and a search has answered
\* 100 items out of more than 100 that match, with other items in the
\* catalog.
C25_Witness ==
    /\ resp.op = "get_instrumentals"
    /\ resp.key = << <<"Calm">>, <<TRUE>>, <<"A">> >>
    /\ Len(resp.doc) = ListCap
    /\ Len(find(instrumentals, <<"Calm">>, <<TRUE>>, <<"A">>)) > ListCap
    /\ Len(find(instrumentals, <<"Drums">>, <<FALSE>>, <<>>)) > 0

\* --------------------------------------------------------------------- C26
\* The four operations of the entitlement engine.
EntitlementOps ==
    {"subscribe", "get_subscription_status", "restore_purchase", "cancel_subscription"}

\* C26: with requests handled one at a time and no crash, a user that was
\* registered before its first entitlement request and never has more than
\* one active row has, on every return of subscribe, get_status, restore or
\* cancel for it, is_subscribed equal to "the user has a row with
\* is_active = true".
C26_FlagMatchesOnReturn ==
    [][ resp'.op \in EntitlementOps =>
            /\ Cardinality(ActiveRowsIn(subscriptions', RespUser(resp'))) <= 1
            /\ \A i \in 1..Len(users') :
                    users'[i].id = RespUser(resp') =>
                        users'[i].is_subscribed =
                            (ActiveRowsIn(subscriptions', RespUser(resp')) # {})
      ]_vars

\* A subscribe has returned a row it inserted for a registered user whose
\* earlier row is inactive, and the user is flagged subscribed.
C26_Witness ==
    /\ resp.op = "subscribe"
    /\ Len(subscriptions) = 2
    /\ ~subscriptions[1].is_active
    /\ resp.doc = <<subscriptions[2]>>
    /\ subscriptions[1].user_id = RespUser(resp)
    /\ \E i \in 1..Len(users) :
          users[i].id = RespUser(resp) /\ users[i].is_subscribed

\* --------------------------------------------------------------------- C27
\* A status check of the user of the last answer starts in this step.
StatusCheckFollows ==
    \/ resp'.op = "get_subscription_status" /\ RespUser(resp') = RespUser(resp)
    \/ \E p \in Procs :
          /\ Idle(p) /\ pc'[p] = "get_subscription_status_expire"
          /\ data'[p].user_id = RespUser(resp)

\* C27 (amended): with requests handled one at a time, a subscribe that
\* inserts a row returns it with expires_at later than the instant at which
\* the handler read the clock to make it; a
\* subscribe answered from the user's active row returns that row as stored,
\* expired or not; and the status check right after a subscribe answers
\* is_subscribed = true with the returned row exactly when that row's
\* expires_at is not before the current time, and otherwise goes on to
\* deactivate the returned row.
C27_SubscribeEntitlesUnlessExpired ==
    [][ /\ (resp'.op = "subscribe" /\ ~ReturnsAtOnce("subscribe"))
                => /\ resp'.doc[1].expires_at > resp'.doc[1].subscribed_at
                   /\ resp'.doc[1].subscribed_at <= now'
        /\ ReturnsAtOnce("subscribe")
                => \E j \in ActiveRows(RespUser(resp')) :
                        resp'.doc = <<subscriptions[j]>>
        /\ (resp.op = "subscribe" /\ StatusCheckFollows)
                => IF resp.doc[1].expires_at >= now
                   THEN /\ resp'.op = "get_subscription_status"
                        /\ resp'.flag /\ resp'.doc = resp.doc
                   ELSE \E p \in Procs :
                        /\ pc'[p] = "get_subscription_status_expire"
                        /\ sub'[p] = resp.doc
      ]_vars

\* A subscribe for the yearly plan has returned the user's active monthly
\* row, which is past its expires_at.
C27_Witness ==
    /\ resp.op = "subscribe"
    /\ RespPlan(resp) = "yearly" /\ resp.doc[1].plan = "monthly"
    /\ resp.doc[1].expires_at < now
    /\ \E j \in ActiveRows(RespUser(resp)) : resp.doc = <<subscriptions[j]>>

\* C27 as stated: every subscribe returns a row with expires_at later than
\* the current time, which for a subscribe that inserts is the instant at
\* which the handler read the clock.
C27_AsStated ==
    [][ resp'.op = "subscribe" =>
            resp'.doc[1].expires_at >
                (IF ReturnsAtOnce("subscribe") THEN now'
                 ELSE resp'.doc[1].subscribed_at)
      ]_vars

\* --------------------------------------------------------------------- C28
\* C28: whenever a status check answers is_subscribed = false and no other
\* request is in progress, its user has no row with is_active = true, also
\* when overlapping subscribe calls had left the user several active rows.
C28_FalseMeansNoActiveRow ==
    [][ (/\ resp'.op = "get_subscription_status" /\ ~resp'.flag
         /\ \A q \in Procs : Idle(q)')
            => ActiveRowsIn(subscriptions', RespUser(resp')) = {}
      ]_vars

\* --------------------------------------------------------------------- C29
\* The user has a row that is past its expires_at and no longer active.
HasLapsedRow(user_id) ==
    \E j \in RowsOfUser(user_id) :
        ~subscriptions[j].is_active /\ subscriptions[j].expires_at < now

\* C29, on finite runs: once an expired row of a user is inactive and a
\* status check of the user has answered is_subscribed = false, the status
\* checks of the user keep answering false until a subscribe; so the status
\* check that comes right after that answer, with no request between the
\* two, answers false.
C29_FalseUntilNewSubscribe ==
    [][ (/\ resp.op = "get_subscription_status" /\ ~resp.flag
         /\ HasLapsedRow(RespUser(resp))
         /\ resp'.op = "get_subscription_status"
         /\ RespUser(resp') = RespUser(resp))
            => ~resp'.flag
      ]_vars

\* --------------------------------------------------------------------- C30
\* The awaits of a status check that found its row expired.
StatusPcs == {"get_subscription_status_expire", "get_subscription_status_update_user"}

\* Handlers p and q are both in a status check of the same expired row.
SameRow(p, q) ==
    /\ p # q
    /\ pc[p] \in StatusPcs /\ pc[q] \in StatusPcs
    /\ sub[p] = sub[q]

\* C30: while two status checks run on the same expired active row, every
\* step leaves the other rows as they were and the row itself as it was but
\* for is_active, which never goes back to true, and every answer given is
\* {false, null}; the first of the two returns with the row inactive and the
\* user's is_subscribed false, the state a single status check leaves, and
\* the second, returning right after it, gives the same answer and leaves
\* the same state.
C30_ConcurrentExpiryIsIdempotent ==
    [][ /\ \A p \in Procs :
              (/\ resp.op = "get_subscription_status" /\ ~resp.flag
               /\ pc[p] = "get_subscription_status_update_user"
               /\ data[p].user_id = RespUser(resp)
               /\ Idle(p)') =>
                  /\ resp' = resp
                  /\ subscriptions' = subscriptions
                  /\ users' = WithFlag(users, data[p].user_id, FALSE)
                  /\ \A j \in 1..Len(subscriptions) :
                        subscriptions[j].id = sub[p][1].id
                            => ~subscriptions[j].is_active
        /\ \A p, q \in Procs :
          SameRow(p, q) =>
            /\ Len(subscriptions') = Len(subscriptions)
            /\ \A j \in 1..Len(subscriptions) :
                  IF subscriptions[j].id = sub[p][1].id
                  THEN /\ subscriptions'[j].is_active => subscriptions[j].is_active
                       /\ [subscriptions'[j] EXCEPT !.is_active = TRUE]
                            = [subscriptions[j] EXCEPT !.is_active = TRUE]
                  ELSE subscriptions'[j] = subscriptions[j]
            /\ resp'.op # "" =>
                  /\ resp' = Response("get_subscription_status",
                                      <<data[p].user_id>>, FALSE, <<>>)
                  /\ users' = WithFlag(users, data[p].user_id, FALSE)
                  /\ \A j \in 1..Len(subscriptions') :
                        subscriptions'[j].id = sub[p][1].id
                            => ~subscriptions'[j].is_active
            /\ (pc[p] = "get_subscription_status_update_user" /\ Idle(q)') =>
                  /\ pc'[p] = pc[p]
                  /\ \A j \in 1..Len(subscriptions') :
                        subscriptions'[j].id = sub[p][1].id
                            => ~subscriptions'[j].is_active
                  /\ \A i \in 1..Len(users') :
                        users'[i].id = data[p].user_id => ~users'[i].is_subscribed
      ]_vars

\* Two status checks have both deactivated the same expired row and neither
\* has returned; the user's other row is still active.
C30_Witness ==
    /\ SameRow("h1", "h2")
    /\ pc["h1"] = "get_subscription_status_update_user"
    /\ pc["h2"] = "get_subscription_status_update_user"
    /\ \E j \in RowsOfUser(data["h1"].user_id) :
          subscriptions[j].id = sub["h1"][1].id /\ ~subscriptions[j].is_active
    /\ \E j \in ActiveRows(data["h1"].user_id) :
          subscriptions[j].id # sub["h1"][1].id

\* --------------------------------------------------------------------- C31
\* The awaits of the entitlement handlers.
EntitlementPcs ==
    {"subscribe_insert", "subscribe_update_user",
     "get_subscription_status_expire", "get_subscription_status_update_user",
     "cancel_subscription_update_user"}

\* This step is a step of an entitlement request for user u: the request is
\* answered from its first store call, or a handler of it moves on.
Acts(u) ==
    \/ /\ pc' = pc /\ resp'.op \in EntitlementOps /\ RespUser(resp') = u
    \/ \E p \in Procs :
          /\ pc'[p] # pc[p]
          /\ IF Idle(p)
             THEN pc'[p] \in EntitlementPcs /\ data'[p].user_id = u
             ELSE pc[p] \in EntitlementPcs /\ data[p].user_id = u

\* C31: a step of subscribe, get_status, restore or cancel for user u leaves
\* every User record but u's and every Subscription row of another user as
\* it was, adds rows of u only, changes no row's user_id, and leaves the
\* requests in progress for other users as they were; what it answers and
\* what it holds are rows of u: a status check or restore answers true with
\* an active row of u and false when u has none, and a cancel counts the
\* active rows of u, whatever rows and requests other users have.
C31_PerUserIsolation ==
    [][ \A u \in UserIds :
          Acts(u) =>
            /\ Len(users') = Len(users)
            /\ \A i \in 1..Len(users) :
                  users[i].id # u => users'[i] = users[i]
            /\ Len(subscriptions') >= Len(subscriptions)
            /\ \A j \in 1..Len(subscriptions') :
                  IF j <= Len(subscriptions)
                  THEN /\ subscriptions'[j].user_id = subscriptions[j].user_id
                       /\ subscriptions[j].user_id # u
                            => subscriptions'[j] = subscriptions[j]
                  ELSE subscriptions'[j].user_id = u
            /\ \A q \in Procs :
                  (~Idle(q) /\ data[q].user_id # u) =>
                      /\ pc'[q] = pc[q] /\ data'[q] = data[q]
                      /\ sub'[q] = sub[q] /\ result'[q] = result[q]
            /\ \A p \in Procs :
                  (pc'[p] # pc[p] /\ ~Idle(p)') =>
                      /\ \A k \in 1..Len(sub'[p]) : sub'[p][k].user_id = u
                      /\ pc'[p] = "cancel_subscription_update_user" =>
                            result'[p] = Cardinality(ActiveRows(u))
            /\ resp'.op \in EntitlementOps =>
                  /\ RespUser(resp') = u
                  /\ \A k \in 1..Len(resp'.doc) : resp'.doc[k].user_id = u
            /\ (/\ pc' = pc
                 /\ resp'.op \in {"get_subscription_status", "restore_purchase"}) =>
                  IF resp'.flag
                  THEN \E j \in ActiveRows(u) : resp'.doc = <<subscriptions[j]>>
                  ELSE ActiveRows(u) = {}
      ]_vars

\* A cancel for one user has just deactivated that user's row while a
\* subscribe for another user is between its two writes, its row stored and
\* active.
C31_Witness ==
    \E p, q \in Procs :
        /\ pc[p] = "cancel_subscription_update_user" /\ result[p] = 1
        /\ pc[q] = "subscribe_update_user"
        /\ data[p].user_id # data[q].user_id
        /\ Len(users) = 2
        /\ ActiveRows(data[p].user_id) = {}
        /\ ActiveRows(data[q].user_id) # {}

\* --------------------------------------------------------------------- C32
\* C32: a subscribe for a user id that no User document carries is never
\* refused: its insert stores an active row of that id and leaves the users
\* alone, its flag update matches nothing and creates no User document, and
\* it returns the stored row, which then is active and has no owning User;
\* the status check right after it answers is_subscribed = true with that
\* row, provided the row is not past its expires_at by then.
C32_SubscribeWithoutUser ==
    [][ /\ resp'.op = "subscribe" => resp'.status = 200 /\ Len(resp'.doc) = 1
        /\ \A p \in Procs :
              NoUserRecord(users, data[p].user_id) =>
                /\ (pc[p] = "subscribe_insert" /\ pc'[p] # pc[p]) =>
                      /\ pc'[p] = "subscribe_update_user"
                      /\ subscriptions' = Append(subscriptions, sub[p][1])
                      /\ sub[p][1].user_id = data[p].user_id
                      /\ sub[p][1].is_active
                      /\ users' = users
                /\ (pc[p] = "subscribe_update_user" /\ pc'[p] # pc[p]) =>
                      /\ users' = users
                      /\ subscriptions' = subscriptions
                      /\ resp' = Response("subscribe",
                                          <<data[p].user_id, data[p].plan>>,
                                          TRUE, sub[p])
                      /\ \E j \in ActiveRows(data[p].user_id) :
                            subscriptions[j] = sub[p][1]
        /\ (/\ resp.op = "subscribe"
             /\ NoUserRecord(users, RespUser(resp))
             /\ resp.doc[1].expires_at >= now
             /\ StatusCheckFollows) =>
                /\ resp'.op = "get_subscription_status"
                /\ resp'.flag /\ resp'.doc = resp.doc
                /\ users' = users
      ]_vars

\* A status check has answered is_subscribed = true with the active row of a
\* user id that no User document carries, beside a registered user.
C32_Witness ==
    /\ resp.op = "get_subscription_status" /\ resp.flag
    /\ NoUserRecord(users, RespUser(resp))
    /\ \E j \in ActiveRows(RespUser(resp)) : resp.doc = <<subscriptions[j]>>
    /\ Len(users) = 1

====
